---- MODULE Spec2Model ----
(***************************************************************************)
(* A model of AppFolioIntegration (src/appfolio_integration.py):           *)
(*   - denormalize_response, the JSON:API denormalizer, stepped through    *)
(*     its loops (lookup construction, data items, relationships, nested   *)
(*     relationships);                                                     *)
(*   - _handle_manual_redirect / _handle_response, the manual redirect     *)
(*     loop of the request executor.                                       *)
(* Python dicts are functions whose DOMAIN is the set of keys present, so  *)
(* a missing key is a key outside DOMAIN and d["k"] on it is a KeyError.   *)
(* Values of different Python types are tagged with a `kind` field.        *)
(***************************************************************************)
EXTENDS Integers, Sequences, FiniteSets, TLC

VARIABLES
    response_json,    \* the argument of denormalize_response
    included_lookup,  \* local dict (type, id) -> included item
    pc,               \* position inside denormalize_response
    inc_i,            \* index of the next `included` item of the lookup loop
    item_i,           \* index of the next `data` item
    result,           \* process_data_item's `result` dict
    rel_j,            \* index of the next relationship of the data item
    resolved,         \* the single resolved target whose nested loop runs
    nested_k,         \* index of the next nested relationship
    records,          \* the list under construction at line 307
    returned,         \* what the call handed to its caller
    resolve_calls,    \* number of resolve_relationship calls of this call
    calls,            \* the calls started: "first", "same" payload, "other"
    first_json,       \* the argument of the first call
    first_returned,   \* what the first call handed to its caller
    token,            \* self.token
    network_requester,\* self.network_requester
    proxy_rotations,  \* set_new_proxy calls made so far
    method,           \* arguments of _handle_manual_redirect
    url,
    max_redirects,
    kwargs,
    redirect_count,   \* locals of _handle_manual_redirect
    current_url,
    current_method,
    rpc,              \* position inside _handle_manual_redirect
    sent,             \* the requests issued through session.request
    received,         \* what the transport answered to each of them
    outcome,          \* what _handle_manual_redirect handed to its caller
    mpc,              \* position inside _make_request
    loop_starts,      \* Len(sent) at each entry of _handle_manual_redirect
    handled,          \* responses handed to _handle_response so far
    made,             \* what _make_request handed to its caller
    hpc,              \* position of a direct _handle_response call
    loop_kind,        \* the pagination loop running: move-outs or work orders
    page,             \* `page` (line 481) / `current_page_index` (line 807)
    most_recent,      \* `most_recent` of _get_move_out_data
    collected,        \* `tenants` (line 482) / `raw_wo_list` (line 787)
    page_log,         \* the page requests made and what each was answered
    ppc,              \* position inside the pagination loop
    cards,            \* the vacancy cards of the listing page
    task_pc,          \* position of each card's _parse_vacancy_task
    task_result,      \* what each task returned
    completed,        \* the tasks in the order they completed
    vacancies,        \* `vacancies` of fetch_vacancies
    awaited,          \* futures of as_completed awaited so far
    vpc,              \* position inside fetch_vacancies
    vacancy_out,      \* what fetch_vacancies handed to its caller
    movein_tenants,   \* arguments of _merge_moves_data
    moveout_tenants,
    merged_tenants,   \* what _merge_moves_data handed to its caller
    mgpc,             \* position of the _merge_moves_data call
    op,               \* the write operation running (attachment or note)
    opc,              \* its position
    op_log,           \* the requests it sent and what each was answered
    op_out,           \* what it handed to its caller
    op_args,          \* the arguments of the call
    op_locals,        \* the local variables of the call
    self_headers,     \* self.headers
    cookie_string,    \* self.cookie_string
    init_tokens,      \* the tokens argument of the latest initialize call
    local_headers,    \* each task's `headers` local
    local_pc          \* each task's operation and its position in it

denormVars == <<response_json, included_lookup, pc, inc_i, item_i, result,
                rel_j, resolved, nested_k, records, returned, resolve_calls,
                calls, first_json, first_returned>>

redirectVars == <<token, network_requester, proxy_rotations, method, url,
                  max_redirects, kwargs, redirect_count, current_url,
                  current_method, rpc, sent, received, outcome>>

requestVars == <<mpc, loop_starts, handled, made, hpc>>

pagingVars == <<loop_kind, page, most_recent, collected, page_log, ppc>>

vacancyVars == <<cards, task_pc, task_result, completed, vacancies, awaited,
                 vpc, vacancy_out>>

mergeVars == <<movein_tenants, moveout_tenants, merged_tenants, mgpc>>

opVars == <<op, opc, op_log, op_out, op_args, op_locals>>

sessionVars == <<self_headers, cookie_string, init_tokens, local_headers,
                 local_pc>>

moreVars == <<mergeVars, opVars, sessionVars>>

clientVars == <<requestVars, pagingVars, vacancyVars, moreVars>>

vars == <<denormVars, redirectVars, clientVars>>

-----------------------------------------------------------------------------
(* Bounds of the model.                                                    *)

MaxData == 2
MaxIncluded == 2
MaxRepeatData == 1
MaxRepeatIncluded == 1
MaxCalls == 3
MaxRedirects == 3
MaxPages == 3
MaxCards == 3
MaxMoves == 2
MaxTasks == 2

-----------------------------------------------------------------------------
(* Python values.                                                          *)

PyNone == [kind |-> "none"]
EmptyDict == [k \in {} |-> PyNone]
S(v) == [kind |-> "str", s |-> v]
O(d) == [kind |-> "obj", o |-> d]
L(q) == [kind |-> "list", l |-> q]

\* d.get(k, default)
Get(d, k, default) == IF k \in DOMAIN d THEN d[k] ELSE default
\* d[k] = v
SetKey(d, k, v) == (k :> v) @@ d
\* {**a, **b}: the entries of b win
Overlay(a, b) == b @@ a

SeqsUpTo(pool, n) == UNION {[1..m -> pool] : m \in 0..n}

\* a reference {type, id}
Ref(t, i) == [type |-> t, id |-> i]
\* relationship objects
RelSingle(t, i) == [data |-> [kind |-> "ref", ref |-> Ref(t, i)]]
RelList(refs) == [data |-> [kind |-> "list", refs |-> refs]]
RelDataNull == [data |-> PyNone]
RelNoData == [links |-> S("/rel")]
Rel(name, rel) == [name |-> name, rel |-> rel]

-----------------------------------------------------------------------------
(* The payloads denormalize_response is called with.                       *)

VendorAcme ==
    [type |-> "v", id |-> "1", attributes |-> [name |-> S("Acme")]]
\* the same (type, id), an attribute named id, a relationship to v/2
VendorBolt ==
    [type |-> "v", id |-> "1",
     attributes |-> [name |-> S("Bolt"), id |-> S("X")],
     relationships |-> <<Rel("n", RelSingle("v", "2"))>>]
\* no attributes, an empty list relationship, a reference to itself
VendorSelf ==
    [type |-> "v", id |-> "2",
     relationships |-> <<Rel("m", RelList(<<>>)),
                         Rel("n", RelSingle("v", "2"))>>]
\* a list-valued relationship
VendorList ==
    [type |-> "v", id |-> "2", attributes |-> [name |-> S("Acme")],
     relationships |-> <<Rel("n", RelList(<<Ref("v", "1")>>))>>]
PropertyPine ==
    [type |-> "p", id |-> "1", attributes |-> [name |-> S("Pine")]]
NoTypeIncluded == [id |-> "1", attributes |-> [name |-> S("Acme")]]
NoIdIncluded == [type |-> "v"]

IncludedPool ==
    {VendorAcme, VendorBolt, VendorSelf, VendorList, PropertyPine,
     NoTypeIncluded, NoIdIncluded}

OrderOne ==
    [type |-> "wo", id |-> "1", attributes |-> [status |-> S("Open")],
     relationships |-> <<Rel("r", RelSingle("v", "1"))>>]
\* attributes and links that collide with each other and with id and type
OrderTwo ==
    [type |-> "wo", id |-> "2",
     attributes |-> [status |-> S("Open"), id |-> S("A")],
     links |-> [status |-> S("/l"), type |-> S("L")],
     relationships |-> <<Rel("r", RelList(<<Ref("v", "1"), Ref("v", "2")>>)),
                         Rel("s", RelSingle("v", "2")),
                         Rel("q", RelSingle("p", "1")),
                         Rel("t", RelDataNull)>>]
\* every shape of relationship that carries no reference
OrderThree ==
    [type |-> "wo", id |-> "1", links |-> [self |-> S("/1")],
     relationships |-> <<Rel("r", PyNone), Rel("s", RelNoData),
                         Rel("e", EmptyDict), Rel("t", RelDataNull),
                         Rel("u", RelList(<<Ref("v", "2")>>))>>]
NoIdData == [type |-> "wo", attributes |-> [status |-> S("Open")]]
NoTypeData == [id |-> "2"]

DataPool == {OrderOne, OrderTwo, OrderThree, NoIdData, NoTypeData}

PayloadsUpTo(max_data, max_included) ==
    LET D == SeqsUpTo(DataPool, max_data)
        I == SeqsUpTo(IncludedPool, max_included)
    IN  {[data |-> d, included |-> i] : d \in D, i \in I}
        \cup {[data |-> d] : d \in D}
        \cup {[included |-> i] : i \in I}

Payloads == PayloadsUpTo(MaxData, MaxIncluded)

\* the payloads of a caller that calls several times
RepeatPayloads == PayloadsUpTo(MaxRepeatData, MaxRepeatIncluded)

\* what such a caller denormalizes between two calls on one payload
OtherPayloads ==
    { [data |-> <<OrderTwo>>, included |-> <<VendorAcme, PropertyPine>>],
      [included |-> <<VendorSelf>>] }

-----------------------------------------------------------------------------
(* denormalize_response                                                    *)

Pending == [kind |-> "pending"]
Returned(recs) == [kind |-> "value", records |-> recs]
Raised(e) == [kind |-> "error", error |-> e]

\* included_lookup.get(key)
LookupGet(lookup, ref) ==
    IF <<ref.type, ref.id>> \in DOMAIN lookup
    THEN [kind |-> "item", item |-> lookup[<<ref.type, ref.id>>]]
    ELSE PyNone

\* lines 241-257
resolve_relationship(lookup, relationship) ==
    IF relationship = PyNone \/ DOMAIN relationship = {}
       \/ "data" \notin DOMAIN relationship
    THEN PyNone
    ELSE LET rel_data == relationship.data IN
         IF rel_data = PyNone
            \/ (rel_data.kind = "list" /\ Len(rel_data.refs) = 0)
         THEN PyNone
         ELSE IF rel_data.kind = "list"
         THEN [kind |-> "list",
               l |-> [n \in 1..Len(rel_data.refs) |->
                         LookupGet(lookup, rel_data.refs[n])]]
         ELSE LookupGet(lookup, rel_data.ref)

\* Python truth value of what resolve_relationship returned
Truthy(r) ==
    \/ r.kind = "item"
    \/ r.kind = "list" /\ Len(r.l) > 0

\* the target's attributes written last
FlattenAttributesLast(r) ==
    Overlay([id |-> S(r.id), type |-> S(r.type)],
            Get(r, "attributes", EmptyDict))

\* {**r.get("attributes", {}), "id": r["id"], "type": r["type"]}
Flatten(r) ==
    Overlay(Get(r, "attributes", EmptyDict),
            [id |-> S(r.id), type |-> S(r.type)])

\* links overlaid before attributes
BaseFieldsLinksFirst(item) ==
    Overlay(Overlay([id |-> S(item.id), type |-> S(item.type)],
                    Get(item, "links", EmptyDict)),
            Get(item, "attributes", EmptyDict))

\* lines 261-267
BaseFields(item) ==
    Overlay(Overlay([id |-> S(item.id), type |-> S(item.type)],
                    Get(item, "attributes", EmptyDict)),
            Get(item, "links", EmptyDict))

\* lines 276-284
FlattenList(q) ==
    LET kept == SelectSeq(q, LAMBDA e : e.kind = "item")
    IN  [n \in 1..Len(kept) |-> Flatten(kept[n].item)]

\* the nested relationship stored under its own name
NestedKeyUnprefixed(rel_name, nested_name) == nested_name

\* line 298
NestedKey(rel_name, nested_name) == rel_name \o "_" \o nested_name

Included(json) == Get(json, "included", <<>>)
RelsOf(item) == Get(item, "relationships", <<>>)

\* the lookup outlives the call
KeptLookup(previous) == previous

\* line 236: the lookup a call starts from (`previous` is the lookup the
\* preceding call left behind, which the code never reads)
NewLookup(previous) == EmptyDict

\* the first resource seen with a key is kept
LookupInsertFirstWins(lookup, item) ==
    IF <<item.type, item.id>> \in DOMAIN lookup
    THEN lookup
    ELSE SetKey(lookup, <<item.type, item.id>>, item)

\* lines 238-239
LookupInsert(lookup, item) == SetKey(lookup, <<item.type, item.id>>, item)

\* __init__, lines 25-33: the client before any request
\* no _make_request call and no direct _handle_response call is running
RequestIdle ==
    /\ mpc = "idle"
    /\ loop_starts = <<>>
    /\ handled = 0
    /\ made = Pending
    /\ hpc = "idle"

\* no pagination loop is running
PagingIdle ==
    /\ loop_kind = "none"
    /\ page = 1
    /\ most_recent = <<>>
    /\ collected = <<>>
    /\ page_log = <<>>
    /\ ppc = "idle"

\* no fetch_vacancies call is running
VacancyIdle ==
    /\ cards = <<>>
    /\ task_pc = <<>>
    /\ task_result = <<>>
    /\ completed = <<>>
    /\ vacancies = <<>>
    /\ awaited = 0
    /\ vpc = "idle"
    /\ vacancy_out = Pending

\* no _merge_moves_data call is running
MergeIdle ==
    /\ movein_tenants = <<>>
    /\ moveout_tenants = <<>>
    /\ merged_tenants = Pending
    /\ mgpc = "idle"

\* no attachment or note operation is running
OpIdle ==
    /\ op = "none"
    /\ opc = "idle"
    /\ op_log = <<>>
    /\ op_out = Pending
    /\ op_args = EmptyDict
    /\ op_locals = EmptyDict

\* lines 25-33: the instance as constructed, no task running
SessionIdle ==
    /\ self_headers = PyNone
    /\ cookie_string = PyNone
    /\ init_tokens = <<>>
    /\ local_headers = <<>>
    /\ local_pc = <<>>

MoreIdle == MergeIdle /\ OpIdle /\ SessionIdle

ClientIdle == RequestIdle /\ PagingIdle /\ VacancyIdle /\ MoreIdle

\* the client as constructed, no request under way
ManualIdle ==
    /\ token = PyNone
    /\ network_requester = PyNone
    /\ proxy_rotations = 0
    /\ method = "GET"
    /\ url = <<>>
    /\ max_redirects = 0
    /\ kwargs = EmptyDict
    /\ redirect_count = 0
    /\ current_url = <<>>
    /\ current_method = "GET"
    /\ rpc = "idle"
    /\ sent = <<>>
    /\ received = <<>>
    /\ outcome = Pending

RedirectIdle == ManualIdle /\ ClientIdle

Enter(payloads) ==
    /\ RedirectIdle
    /\ response_json \in payloads
    /\ included_lookup = EmptyDict
    /\ pc = "lookup"
    /\ inc_i = 1
    /\ item_i = 1
    /\ result = EmptyDict
    /\ rel_j = 1
    /\ resolved = PyNone
    /\ nested_k = 1
    /\ records = <<>>
    /\ returned = Pending
    /\ resolve_calls = 0
    /\ calls = <<"first">>
    /\ first_json = response_json
    /\ first_returned = Pending

InitDenorm == Enter(Payloads)

\* the call ends: `out` goes to the caller
Finish(label, out) ==
    /\ pc' = label
    /\ returned' = out
    /\ first_returned' = IF Len(calls) = 1 THEN out ELSE first_returned

Raise(e) == Finish("raised", Raised(e))

\* lines 237-239, one iteration
BuildLookup ==
    /\ pc = "lookup"
    /\ inc_i <= Len(Included(response_json))
    /\ LET item == Included(response_json)[inc_i] IN
       IF "type" \notin DOMAIN item \/ "id" \notin DOMAIN item
       THEN /\ Raise("KeyError")
            /\ UNCHANGED <<included_lookup, inc_i>>
       ELSE /\ included_lookup' = LookupInsert(included_lookup, item)
            /\ inc_i' = inc_i + 1
            /\ UNCHANGED <<pc, returned, first_returned>>
    /\ UNCHANGED <<response_json, item_i, result, rel_j, resolved, nested_k,
                   records, resolve_calls, calls, first_json>>
    /\ UNCHANGED <<redirectVars, clientVars>>

\* line 307: response_json["data"] is evaluated once the lookup is built
BeginData ==
    /\ pc = "lookup"
    /\ inc_i > Len(Included(response_json))
    /\ IF "data" \notin DOMAIN response_json
       THEN Raise("KeyError")
       ELSE pc' = "item" /\ UNCHANGED <<returned, first_returned>>
    /\ UNCHANGED <<response_json, included_lookup, inc_i, item_i, result,
                   rel_j, resolved, nested_k, records, resolve_calls, calls,
                   first_json>>
    /\ UNCHANGED <<redirectVars, clientVars>>

\* a data item without id or type is passed over
ProcessItemSkipMalformed ==
    /\ pc = "item"
    /\ item_i <= Len(response_json.data)
    /\ LET item == response_json.data[item_i] IN
       IF "id" \notin DOMAIN item \/ "type" \notin DOMAIN item
       THEN /\ item_i' = item_i + 1
            /\ UNCHANGED <<result, rel_j, pc>>
       ELSE /\ result' = BaseFields(item)
            /\ rel_j' = 1
            /\ pc' = "rels"
            /\ UNCHANGED item_i
    /\ UNCHANGED <<response_json, included_lookup, inc_i, resolved, nested_k,
                   records, returned, resolve_calls, calls, first_json,
                   first_returned>>
    /\ UNCHANGED <<redirectVars, clientVars>>

\* lines 259-270: process_data_item up to its relationship loop
ProcessItem ==
    /\ pc = "item"
    /\ item_i <= Len(response_json.data)
    /\ LET item == response_json.data[item_i] IN
       IF "id" \notin DOMAIN item \/ "type" \notin DOMAIN item
       THEN /\ Raise("KeyError")
            /\ UNCHANGED <<result, rel_j>>
       ELSE /\ result' = BaseFields(item)
            /\ rel_j' = 1
            /\ pc' = "rels"
            /\ UNCHANGED <<returned, first_returned>>
    /\ UNCHANGED <<response_json, included_lookup, inc_i, item_i, resolved,
                   nested_k, records, resolve_calls, calls, first_json>>
    /\ UNCHANGED <<redirectVars, clientVars>>

\* lines 271-291: one iteration of the relationship loop, up to the nested loop
ResolveRelationship ==
    /\ pc = "rels"
    /\ rel_j <= Len(RelsOf(response_json.data[item_i]))
    /\ LET rel == RelsOf(response_json.data[item_i])[rel_j]
           res == resolve_relationship(included_lookup, rel.rel)
       IN  /\ resolve_calls' = resolve_calls + 1
           /\ IF ~Truthy(res)
              THEN /\ rel_j' = rel_j + 1
                   /\ UNCHANGED <<result, resolved, nested_k, pc>>
              ELSE IF res.kind = "list"
              THEN /\ result' = SetKey(result, rel.name, L(FlattenList(res.l)))
                   /\ rel_j' = rel_j + 1
                   /\ UNCHANGED <<resolved, nested_k, pc>>
              ELSE /\ result' = SetKey(result, rel.name, O(Flatten(res.item)))
                   /\ resolved' = res
                   /\ nested_k' = 1
                   /\ pc' = "nested"
                   /\ UNCHANGED rel_j
    /\ UNCHANGED <<response_json, included_lookup, inc_i, item_i, records,
                   returned, calls, first_json, first_returned>>
    /\ UNCHANGED <<redirectVars, clientVars>>

\* the nested target's own relationships are expanded as well
ResolveNestedDeeper ==
    /\ pc = "nested"
    /\ nested_k <= Len(RelsOf(resolved.item))
    /\ LET rel_name == RelsOf(response_json.data[item_i])[rel_j].name
           nested == RelsOf(resolved.item)[nested_k]
           nested_resolved == resolve_relationship(included_lookup, nested.rel)
           key == NestedKey(rel_name, nested.name)
       IN  /\ resolve_calls' = resolve_calls + 1
           /\ IF ~Truthy(nested_resolved)
              THEN /\ nested_k' = nested_k + 1
                   /\ UNCHANGED <<result, pc, returned, first_returned>>
              ELSE IF nested_resolved.kind = "list"
              THEN /\ Raise("AttributeError")
                   /\ UNCHANGED <<result, nested_k>>
              ELSE LET third == RelsOf(nested_resolved.item)
                       deeper == {m \in 1..Len(third) :
                                     resolve_relationship(included_lookup,
                                         third[m].rel).kind = "item"}
                       extra == [k \in {NestedKey(key, third[m].name) :
                                           m \in deeper} |->
                                   O(Flatten(nested_resolved.item))]
                   IN  /\ result' = extra @@ SetKey(result, key,
                                         O(Flatten(nested_resolved.item)))
                       /\ nested_k' = nested_k + 1
                       /\ UNCHANGED <<pc, returned, first_returned>>
    /\ UNCHANGED <<response_json, included_lookup, inc_i, item_i, rel_j,
                   resolved, records, calls, first_json>>
    /\ UNCHANGED <<redirectVars, clientVars>>

\* lines 295-302: one iteration of the nested loop
ResolveNested ==
    /\ pc = "nested"
    /\ nested_k <= Len(RelsOf(resolved.item))
    /\ LET rel_name == RelsOf(response_json.data[item_i])[rel_j].name
           nested == RelsOf(resolved.item)[nested_k]
           nested_resolved == resolve_relationship(included_lookup, nested.rel)
       IN  /\ resolve_calls' = resolve_calls + 1
           /\ IF ~Truthy(nested_resolved)
              THEN /\ nested_k' = nested_k + 1
                   /\ UNCHANGED <<result, pc, returned, first_returned>>
              ELSE IF nested_resolved.kind = "list"
              THEN \* a list has no .get: AttributeError at line 299
                   /\ Raise("AttributeError")
                   /\ UNCHANGED <<result, nested_k>>
              ELSE /\ result' = SetKey(result, NestedKey(rel_name, nested.name),
                                       O(Flatten(nested_resolved.item)))
                   /\ nested_k' = nested_k + 1
                   /\ UNCHANGED <<pc, returned, first_returned>>
    /\ UNCHANGED <<response_json, included_lookup, inc_i, item_i, rel_j,
                   resolved, records, calls, first_json>>
    /\ UNCHANGED <<redirectVars, clientVars>>

\* line 295: the nested loop is exhausted, the relationship loop goes on
NestedDone ==
    /\ pc = "nested"
    /\ nested_k > Len(RelsOf(resolved.item))
    /\ pc' = "rels"
    /\ rel_j' = rel_j + 1
    /\ UNCHANGED <<response_json, included_lookup, inc_i, item_i, result,
                   resolved, nested_k, records, returned, resolve_calls,
                   calls, first_json, first_returned>>
    /\ UNCHANGED <<redirectVars, clientVars>>

\* line 304: process_data_item returns, the comprehension appends
ItemDone ==
    /\ pc = "rels"
    /\ rel_j > Len(RelsOf(response_json.data[item_i]))
    /\ records' = Append(records, result)
    /\ item_i' = item_i + 1
    /\ pc' = "item"
    /\ UNCHANGED <<response_json, included_lookup, inc_i, result, rel_j,
                   resolved, nested_k, returned, resolve_calls, calls,
                   first_json, first_returned>>
    /\ UNCHANGED <<redirectVars, clientVars>>

\* line 307: the comprehension is exhausted, the list is returned
Return ==
    /\ pc = "item"
    /\ item_i > Len(response_json.data)
    /\ Finish("returned", Returned(records))
    /\ UNCHANGED <<response_json, included_lookup, inc_i, item_i, result,
                   rel_j, resolved, nested_k, records, resolve_calls, calls,
                   first_json>>
    /\ UNCHANGED <<redirectVars, clientVars>>

NextDenorm ==
    \/ BuildLookup
    \/ BeginData
    \/ ProcessItem
    \/ ResolveRelationship
    \/ ResolveNested
    \/ NestedDone
    \/ ItemDone
    \/ Return

SpecDenorm == InitDenorm /\ [][NextDenorm]_vars

\* the caller calls denormalize_response again, on the payload of its first
\* call or on another one (lines 224-236: a fresh frame, a fresh lookup)
CallAgain ==
    /\ pc \in {"returned", "raised"}
    /\ Len(calls) < MaxCalls
    /\ \E p \in {first_json} \cup OtherPayloads :
          /\ response_json' = p
          /\ calls' = Append(calls, IF p = first_json THEN "same" ELSE "other")
    /\ included_lookup' = NewLookup(included_lookup)
    /\ pc' = "lookup"
    /\ inc_i' = 1
    /\ item_i' = 1
    /\ result' = EmptyDict
    /\ rel_j' = 1
    /\ resolved' = PyNone
    /\ nested_k' = 1
    /\ records' = <<>>
    /\ returned' = Pending
    /\ resolve_calls' = 0
    /\ UNCHANGED <<first_json, first_returned>>
    /\ UNCHANGED <<redirectVars, clientVars>>

InitRepeat == Enter(RepeatPayloads)

NextRepeat == NextDenorm \/ CallAgain

SpecRepeat == InitRepeat /\ [][NextRepeat]_vars

-----------------------------------------------------------------------------
(* _handle_manual_redirect and _handle_response.  A URL or a header value  *)
(* is the sequence of its pieces: "https://a.example/x" is                  *)
(* <<"https", "://", "a.example", "/", "x">>.                               *)

RedirectStatuses == {301, 302, 303, 307, 308}
FinalStatuses == {200, 304, 403, 404, 500}
Methods == {"GET", "POST"}

OriginalUrl == <<"https", "://", "a.example", "/", "start">>
LocationRelative == <<"/", "next">>
LocationAbsolute == <<"https", "://", "b.example", "/", "x">>
LocationBare == <<"login">>
LocationEmpty == <<>>

Response(status, headers) == [status |-> status, headers |-> headers]
\* aiohttp.ClientError raised by session.request
TransportError == [status |-> 0, headers |-> EmptyDict, failed |-> TRUE]

\* what the transport may answer to one request
Answers ==
    {Response(st, [Location |-> loc]) :
        st \in RedirectStatuses,
        loc \in {LocationRelative, LocationAbsolute, LocationBare,
                 LocationEmpty}}
    \cup {Response(st, EmptyDict) : st \in RedirectStatuses \cup FinalStatuses}
    \cup {TransportError}

\* what the callers of _handle_response and _handle_manual_redirect get
ReturnText(status) == [kind |-> "return", value |-> "text", status |-> status]
ReturnRetry ==
    [kind |-> "return", value |-> "IntegrationAPIError",
     error_code |-> "retry_request", status_code |-> 403]
RaiseNoCredentials ==
    [kind |-> "raise", error |-> "IntegrationAuthError",
     message |-> "No access token", status_code |-> 400]
RaiseAuth(status) ==
    [kind |-> "raise", error |-> "IntegrationAuthError",
     message |-> "status and reason", status_code |-> status]
RaiseApi(status) ==
    [kind |-> "raise", error |-> "IntegrationAPIError",
     message |-> "status and headers", status_code |-> status]
RaiseNoLocation(status) ==
    [kind |-> "raise", error |-> "IntegrationAPIError",
     message |-> "no Location header", status |-> status]
RaiseTooManyRedirects(max) ==
    [kind |-> "raise", error |-> "IntegrationAPIError",
     message |-> "Too many redirects", max |-> max]
RaiseClientError == [kind |-> "raise", error |-> "ClientError"]

\* status 400 is not taken for a client error
HandleResponseClientErrorAbove400(status, tok, requester) ==
    IF status = 200 \/ status < 400 THEN ReturnText(status)
    ELSE IF 400 < status /\ status < 500
    THEN IF status = 403 /\ requester # PyNone THEN ReturnRetry
         ELSE IF tok = PyNone THEN RaiseNoCredentials
         ELSE RaiseAuth(status)
    ELSE RaiseApi(status)

\* lines 149-180; response.ok is 400 > status
HandleResponse(status, tok, requester) ==
    IF status = 200 \/ status < 400 THEN ReturnText(status)
    ELSE IF 400 <= status /\ status < 500
    THEN IF status = 403 /\ requester # PyNone THEN ReturnRetry
         ELSE IF tok = PyNone THEN RaiseNoCredentials
         ELSE RaiseAuth(status)
    ELSE RaiseApi(status)

\* the proxy is rotated on every client error
RotatesProxyOnAnyClientError(status, requester) ==
    status >= 400 /\ status < 500 /\ requester # PyNone

\* lines 155-156: set_new_proxy is awaited on a 403 with a requester
RotatesProxy(status, requester) ==
    status >= 400 /\ status = 403 /\ requester # PyNone

\* lines 113-115: `not response.headers.get("Location")`, a missing header
\* or an empty value
NoLocation(headers) ==
    "Location" \notin DOMAIN headers \/ headers.Location = <<>>

\* urllib.parse.urlparse(u).scheme and .netloc
UrlScheme(u) == IF Len(u) >= 2 /\ u[2] = "://" THEN u[1] ELSE ""
UrlNetloc(u) == IF Len(u) >= 3 /\ u[2] = "://" THEN u[3] ELSE ""

\* lines 122-126
ResolveLocation(current, next_url) ==
    IF Len(next_url) > 0 /\ next_url[1] = "/"
    THEN <<UrlScheme(current), "://", UrlNetloc(current)>> \o next_url
    ELSE next_url

\* the loop runs one time more than max_redirects allows
LoopContinuesOffByOne(count, max) == count <= max

\* line 107
LoopContinues(count, max) == count < max

\* the keyword arguments the operations of the client pass on: headers, and
\* query parameters (line 487) or a body
CallKwargs(tok) ==
    LET headers == [Host |-> S("a.example"), Cookie |-> tok] IN
    {[headers |-> headers],
     [headers |-> headers, params |-> [page |-> S("1")]],
     [headers |-> headers, data |-> S("body")]}

InitRedirect ==
    /\ response_json = [data |-> <<>>]
    /\ included_lookup = EmptyDict
    /\ pc = "idle"
    /\ inc_i = 1
    /\ item_i = 1
    /\ result = EmptyDict
    /\ rel_j = 1
    /\ resolved = PyNone
    /\ nested_k = 1
    /\ records = <<>>
    /\ returned = Pending
    /\ resolve_calls = 0
    /\ calls = <<>>
    /\ first_json = response_json
    /\ first_returned = Pending
    /\ token \in {PyNone, S("session=abc")}
    /\ network_requester = PyNone
    /\ proxy_rotations = 0
    /\ method \in Methods
    /\ url = OriginalUrl
    /\ max_redirects \in 0..MaxRedirects
    /\ kwargs \in CallKwargs(token)
    /\ redirect_count = 0
    /\ current_url = url
    /\ current_method = method
    /\ rpc = "loop"
    /\ sent = <<>>
    /\ received = <<>>
    /\ outcome = Pending
    /\ ClientIdle

RedirectEnds(out) ==
    /\ rpc' = (IF out.kind = "return" THEN "returned" ELSE "raised")
    /\ outcome' = out

\* the method is reset to GET after every redirect, not only after a 303
NextMethodAlwaysGet(status, current) ==
    IF status \in RedirectStatuses THEN "GET" ELSE current

\* lines 133-135
NextMethod(status, current) == IF status = 303 THEN "GET" ELSE current

\* the headers are not passed on to the requests of the loop
ManualRequestArgsNoHeaders(m, u, kw) ==
    [method |-> m, url |-> u, allow_redirects |-> FALSE,
     kwargs |-> [k \in DOMAIN kw \ {"headers"} |-> kw[k]]]

\* lines 108-110: session.request(current_method, current_url,
\* allow_redirects=False, **kwargs)
ManualRequestArgs(m, u, kw) ==
    [method |-> m, url |-> u, allow_redirects |-> FALSE, kwargs |-> kw]

\* lines 107-139: one iteration of the loop, the request and what follows it
ManualRequest(answers) ==
    /\ rpc = "loop"
    /\ LoopContinues(redirect_count, max_redirects)
    /\ \E response \in answers :
          /\ sent' = Append(sent, ManualRequestArgs(current_method,
                                                    current_url, kwargs))
          /\ received' = Append(received, response)
          /\ IF "failed" \in DOMAIN response
             THEN /\ RedirectEnds(RaiseClientError)
                  /\ UNCHANGED <<redirect_count, current_url, current_method,
                                 proxy_rotations>>
             ELSE IF response.status \in RedirectStatuses
             THEN LET next_url == Get(response.headers, "Location", <<>>) IN
                  /\ redirect_count' = redirect_count + 1
                  /\ IF NoLocation(response.headers)
                     THEN /\ RedirectEnds(RaiseNoLocation(response.status))
                          /\ UNCHANGED <<current_url, current_method>>
                     ELSE /\ current_url' = ResolveLocation(current_url, next_url)
                          /\ current_method' = NextMethod(response.status,
                                                          current_method)
                          /\ UNCHANGED <<rpc, outcome>>
                  /\ UNCHANGED proxy_rotations
             ELSE /\ RedirectEnds(HandleResponse(response.status, token,
                                                 network_requester))
                  /\ proxy_rotations' =
                        (IF RotatesProxy(response.status, network_requester)
                         THEN proxy_rotations + 1 ELSE proxy_rotations)
                  /\ UNCHANGED <<redirect_count, current_url, current_method>>
    /\ UNCHANGED <<token, network_requester, method, url, max_redirects, kwargs>>

\* lines 141-144: the loop condition failed
ManualGivesUp ==
    /\ rpc = "loop"
    /\ ~LoopContinues(redirect_count, max_redirects)
    /\ RedirectEnds(RaiseTooManyRedirects(max_redirects))
    /\ UNCHANGED <<token, network_requester, proxy_rotations, method, url,
                   max_redirects, kwargs, redirect_count, current_url,
                   current_method, sent, received>>

RedirectRequest ==
    /\ ManualRequest(Answers)
    /\ UNCHANGED <<denormVars, clientVars>>

TooManyRedirects ==
    /\ ManualGivesUp
    /\ UNCHANGED <<denormVars, clientVars>>

NextRedirect == RedirectRequest \/ TooManyRedirects

SpecRedirect == InitRedirect /\ [][NextRedirect]_vars

-----------------------------------------------------------------------------
(* _make_request (lines 60-97): the first attempt with automatic redirects *)
(* and the fallback to the manual redirect loop.                           *)

\* no denormalize_response call is running
DenormIdle ==
    /\ response_json = [data |-> <<>>]
    /\ included_lookup = EmptyDict
    /\ pc = "idle"
    /\ inc_i = 1
    /\ item_i = 1
    /\ result = EmptyDict
    /\ rel_j = 1
    /\ resolved = PyNone
    /\ nested_k = 1
    /\ records = <<>>
    /\ returned = Pending
    /\ resolve_calls = 0
    /\ calls = <<>>
    /\ first_json = response_json
    /\ first_returned = Pending

\* line 71
DefaultMaxRedirects == 5

\* a custom network requester object
Requester == [kind |-> "requester"]

\* the keyword arguments of a _make_request call, with or without
\* max_redirects
RequestKwargs(tok) ==
    LET headers == [Host |-> S("a.example"), Cookie |-> tok] IN
    {[headers |-> headers]}
    \cup {[headers |-> headers, max_redirects |-> n] : n \in 0..MaxRedirects}

\* what the transport answers inside the fallback loop
LoopAnswers ==
    {Response(302, [Location |-> LocationRelative]),
     Response(303, [Location |-> LocationAbsolute]),
     Response(301, [Location |-> LocationEmpty]),
     Response(307, EmptyDict),
     Response(200, EmptyDict),
     Response(403, EmptyDict),
     Response(500, EmptyDict),
     TransportError}

\* lines 76-78: session.request(method, url, allow_redirects=True, **kwargs)
FirstRequestArgs(m, u, kw) ==
    [method |-> m, url |-> u, allow_redirects |-> TRUE, kwargs |-> kw]

\* lines 66-68: network_requester.request(method, url,
\* process_response=self._handle_response, **kwargs)
RequesterArgs(m, u, kw) ==
    [method |-> m, url |-> u, process_response |-> "_handle_response",
     kwargs |-> kw]

\* every 3xx status falls back to the manual loop
FallsBackOnAny3xx(status) == status >= 300 /\ status < 400

\* line 83
FallsBackToManual(status) == status \in RedirectStatuses

InitRequest ==
    /\ DenormIdle
    /\ PagingIdle
    /\ VacancyIdle
    /\ MoreIdle
    /\ token \in {PyNone, S("session=abc")}
    /\ network_requester \in {PyNone, Requester}
    /\ proxy_rotations = 0
    /\ method \in Methods
    /\ url = OriginalUrl
    /\ max_redirects = 0
    /\ kwargs \in RequestKwargs(token)
    /\ redirect_count = 0
    /\ current_url = <<>>
    /\ current_method = "GET"
    /\ rpc = "idle"
    /\ sent = <<>>
    /\ received = <<>>
    /\ outcome = Pending
    /\ mpc = "start"
    /\ loop_starts = <<>>
    /\ handled = 0
    /\ made = Pending
    /\ hpc = "idle"

\* lines 85-87 and 95-97: _handle_manual_redirect(session, method, url,
\* max_redirects, **kwargs) starts; lines 103-105
EnterManualRedirect(from) ==
    /\ mpc' = from
    /\ loop_starts' = Append(loop_starts, Len(sent'))
    /\ redirect_count' = 0
    /\ current_url' = url
    /\ current_method' = method
    /\ rpc' = "loop"
    /\ outcome' = Pending

\* _make_request ends: `out` goes to its caller
MakeRequestEnds(out) ==
    /\ mpc' = "done"
    /\ made' = out

\* lines 65-69: the custom requester is handed the request and the response
\* handler; it is taken to call the handler once on the response it got and
\* to hand back what the handler handed back
RequesterRequest ==
    /\ mpc = "start"
    /\ network_requester # PyNone
    /\ \E response \in Answers :
          /\ sent' = Append(sent, RequesterArgs(method, url, kwargs))
          /\ received' = Append(received, response)
          /\ IF "failed" \in DOMAIN response
             THEN /\ MakeRequestEnds(RaiseClientError)
                  /\ UNCHANGED <<handled, proxy_rotations>>
             ELSE /\ MakeRequestEnds(HandleResponse(response.status, token,
                                                    network_requester))
                  /\ handled' = handled + 1
                  /\ proxy_rotations' =
                        (IF RotatesProxy(response.status, network_requester)
                         THEN proxy_rotations + 1 ELSE proxy_rotations)
    /\ UNCHANGED <<token, network_requester, method, url, max_redirects,
                   kwargs, redirect_count, current_url, current_method, rpc,
                   outcome, loop_starts, hpc>>
    /\ UNCHANGED <<denormVars, pagingVars, vacancyVars, moreVars>>

\* lines 71-97: max_redirects is popped from kwargs, the first request is
\* sent with automatic redirects and its answer is handled or falls back
FirstAttempt ==
    /\ mpc = "start"
    /\ network_requester = PyNone
    /\ max_redirects' = Get(kwargs, "max_redirects", DefaultMaxRedirects)
    /\ kwargs' = [k \in DOMAIN kwargs \ {"max_redirects"} |-> kwargs[k]]
    /\ \E response \in Answers :
          /\ sent' = Append(sent, FirstRequestArgs(method, url, kwargs'))
          /\ received' = Append(received, response)
          /\ IF "failed" \in DOMAIN response
             THEN /\ EnterManualRedirect("manual_except")
                  /\ UNCHANGED <<handled, made, proxy_rotations>>
             ELSE IF response.status # 200
                     /\ FallsBackToManual(response.status)
             THEN /\ EnterManualRedirect("manual_try")
                  /\ UNCHANGED <<handled, made, proxy_rotations>>
             ELSE /\ MakeRequestEnds(HandleResponse(response.status, token,
                                                    network_requester))
                  /\ handled' = handled + 1
                  /\ proxy_rotations' =
                        (IF RotatesProxy(response.status, network_requester)
                         THEN proxy_rotations + 1 ELSE proxy_rotations)
                  /\ UNCHANGED <<loop_starts, redirect_count, current_url,
                                 current_method, rpc, outcome>>
    /\ UNCHANGED <<token, network_requester, method, url, hpc>>
    /\ UNCHANGED <<denormVars, pagingVars, vacancyVars, moreVars>>

\* a request of the manual loop running inside _make_request
LoopRequest ==
    /\ mpc \in {"manual_try", "manual_except"}
    /\ ManualRequest(LoopAnswers)
    /\ LET response == received'[Len(received')] IN
       \* line 139: the response is handed to _handle_response
       handled' = (IF "failed" \notin DOMAIN response
                      /\ response.status \notin RedirectStatuses
                   THEN handled + 1 ELSE handled)
    /\ UNCHANGED <<mpc, loop_starts, made, hpc>>
    /\ UNCHANGED <<denormVars, pagingVars, vacancyVars, moreVars>>

\* the manual loop running inside _make_request runs out of redirects
LoopGivesUp ==
    /\ mpc \in {"manual_try", "manual_except"}
    /\ ManualGivesUp
    /\ UNCHANGED clientVars
    /\ UNCHANGED <<denormVars, pagingVars, vacancyVars, moreVars>>

\* every exception of the manual loop starts the loop again
ManualRedirectEndsRetryAll ==
    /\ mpc \in {"manual_try", "manual_except"}
    /\ rpc \in {"returned", "raised"}
    /\ UNCHANGED <<token, network_requester, proxy_rotations, method, url,
                   max_redirects, kwargs, sent, received, handled, hpc>>
    /\ IF mpc = "manual_try" /\ outcome.kind = "raise"
       THEN /\ EnterManualRedirect("manual_except")
            /\ UNCHANGED made
       ELSE /\ MakeRequestEnds(outcome)
            /\ UNCHANGED <<loop_starts, redirect_count, current_url,
                           current_method, rpc, outcome>>
    /\ UNCHANGED <<denormVars, pagingVars, vacancyVars, moreVars>>

\* lines 85-97: _handle_manual_redirect hands its outcome to _make_request.
\* The call of line 85 is inside the try block of line 75, so an
\* aiohttp.ClientError it raises is caught at line 91 and the loop is
\* called again at line 95; everything else goes to the caller.
ManualRedirectEnds ==
    /\ mpc \in {"manual_try", "manual_except"}
    /\ rpc \in {"returned", "raised"}
    /\ UNCHANGED <<token, network_requester, proxy_rotations, method, url,
                   max_redirects, kwargs, sent, received, handled, hpc>>
    /\ IF mpc = "manual_try" /\ outcome = RaiseClientError
       THEN /\ EnterManualRedirect("manual_except")
            /\ UNCHANGED made
       ELSE /\ MakeRequestEnds(outcome)
            /\ UNCHANGED <<loop_starts, redirect_count, current_url,
                           current_method, rpc, outcome>>
    /\ UNCHANGED <<denormVars, pagingVars, vacancyVars, moreVars>>

NextRequest ==
    \/ RequesterRequest
    \/ FirstAttempt
    \/ LoopRequest
    \/ LoopGivesUp
    \/ ManualRedirectEnds

SpecRequest == InitRequest /\ [][NextRequest]_vars

-----------------------------------------------------------------------------
(* _handle_response (lines 146-180) called on one response.                *)

\* the HTTP status codes
Statuses == 100..599

InitHandle ==
    /\ DenormIdle
    /\ PagingIdle
    /\ VacancyIdle
    /\ MoreIdle
    /\ token \in {PyNone, S("session=abc")}
    /\ network_requester \in {PyNone, Requester}
    /\ proxy_rotations = 0
    /\ method = "GET"
    /\ url = <<>>
    /\ max_redirects = 0
    /\ kwargs = EmptyDict
    /\ redirect_count = 0
    /\ current_url = <<>>
    /\ current_method = "GET"
    /\ rpc = "idle"
    /\ sent = <<>>
    /\ received \in {<<Response(status, EmptyDict)>> : status \in Statuses}
    /\ outcome = Pending
    /\ mpc = "idle"
    /\ loop_starts = <<>>
    /\ handled = 0
    /\ made = Pending
    /\ hpc = "called"

\* lines 146-180: the whole handler on the response it was given
HandleResponseCall ==
    /\ hpc = "called"
    /\ LET response == received[1]
           out == HandleResponse(response.status, token, network_requester)
       IN  /\ outcome' = out
           /\ hpc' = (IF out.kind = "return" THEN "returned" ELSE "raised")
           /\ proxy_rotations' =
                 (IF RotatesProxy(response.status, network_requester)
                  THEN proxy_rotations + 1 ELSE proxy_rotations)
    /\ handled' = handled + 1
    /\ UNCHANGED <<token, network_requester, method, url, max_redirects,
                   kwargs, redirect_count, current_url, current_method, rpc,
                   sent, received, mpc, loop_starts, made>>
    /\ UNCHANGED <<denormVars, pagingVars, vacancyVars, moreVars>>

NextHandle == HandleResponseCall

SpecHandle == InitHandle /\ [][NextHandle]_vars

-----------------------------------------------------------------------------
(* The pagination loops: _get_move_out_data (lines 481-498) and the        *)
(* all-pages branch of fetch_work_orders (lines 805-826).                  *)

\* rows of the move-outs table (`body_row_data`): a row with a name cell,
\* and a row without cells
RowAnn == [data |-> <<[value |-> "Ann"]>>]
RowBob == [data |-> <<[value |-> "Bob"]>>]
RowBlank == [data |-> <<>>]

\* resources of a work-orders page, without relationships
WorkOrderSeven == [type |-> "work_orders", id |-> "7",
                   attributes |-> [status |-> S("New")]]
WorkOrderNine == [type |-> "work_orders", id |-> "9"]

\* what a page request is answered: a JSON body, a body that is not JSON, or
\* an exception out of _make_request
JsonPage(items) == [kind |-> "json", items |-> items]
NotJson == [kind |-> "not_json"]
RequestFails == [kind |-> "error"]

MoveOutPages ==
    {JsonPage(<<>>), JsonPage(<<RowAnn>>), JsonPage(<<RowAnn, RowBob>>),
     JsonPage(<<RowBlank>>), NotJson, RequestFails}

WorkOrderPages ==
    {JsonPage(<<>>), JsonPage(<<WorkOrderSeven>>),
     JsonPage(<<WorkOrderSeven, WorkOrderNine>>), JsonPage(<<WorkOrderNine>>),
     NotJson, RequestFails}

\* lines 610-656 for the name cell: one dict per row, tenant_name when the
\* first cell has a value
ParseMoveOutRow(row) ==
    IF Len(row.data) > 0 /\ row.data[1].value # ""
    THEN [tenant_name |-> S(row.data[1].value)]
    ELSE EmptyDict

\* lines 606-658
ParseMoveOuts(rows) == [n \in 1..Len(rows) |-> ParseMoveOutRow(rows[n])]

\* denormalize_response on a payload whose resources have no relationships:
\* process_data_item returns the base fields of each
DenormalizeFlat(items) == [n \in 1..Len(items) |-> BaseFields(items[n])]

InitPaging ==
    /\ DenormIdle
    /\ ManualIdle
    /\ RequestIdle
    /\ VacancyIdle
    /\ MoreIdle
    /\ loop_kind \in {"move_outs", "work_orders"}
    /\ page = 1
    /\ most_recent = <<>>
    /\ collected = <<>>
    /\ page_log = <<>>
    /\ ppc = "loop"

\* the loop is left: by `break` or by an exception
PagingEnds(label) ==
    /\ ppc' = label
    /\ UNCHANGED <<page, most_recent, collected>>

\* lines 484-496: one iteration of the move-outs loop
MoveOutsPage ==
    /\ ppc = "loop"
    /\ loop_kind = "move_outs"
    /\ page <= MaxPages
    /\ \E answer \in MoveOutPages :
          /\ page_log' = Append(page_log, [page |-> page, answer |-> answer])
          /\ IF answer.kind # "json"
             THEN PagingEnds("raised")
             ELSE LET outs == ParseMoveOuts(answer.items) IN
                  IF Len(outs) = 0 \/ outs = most_recent
                  THEN PagingEnds("left")
                  ELSE /\ collected' = collected \o outs
                       /\ most_recent' = outs
                       /\ page' = page + 1
                       /\ UNCHANGED ppc
    /\ UNCHANGED loop_kind
    /\ UNCHANGED <<denormVars, redirectVars, requestVars, vacancyVars,
                   moreVars>>

\* lines 808-826: one iteration of the all-pages loop of fetch_work_orders
WorkOrdersPage ==
    /\ ppc = "loop"
    /\ loop_kind = "work_orders"
    /\ page <= MaxPages
    /\ \E answer \in WorkOrderPages :
          /\ page_log' = Append(page_log, [page |-> page, answer |-> answer])
          /\ IF answer.kind = "error"
             THEN PagingEnds("raised")
             ELSE IF answer.kind = "not_json"
             THEN PagingEnds("left")
             ELSE LET denorm_response == DenormalizeFlat(answer.items) IN
                  IF Len(denorm_response) > 0
                  THEN /\ collected' = collected \o denorm_response
                       /\ page' = page + 1
                       /\ UNCHANGED <<ppc, most_recent>>
                  ELSE PagingEnds("left")
    /\ UNCHANGED loop_kind
    /\ UNCHANGED <<denormVars, redirectVars, requestVars, vacancyVars,
                   moreVars>>

NextPaging == MoveOutsPage \/ WorkOrdersPage

SpecPaging == InitPaging /\ [][NextPaging]_vars

-----------------------------------------------------------------------------
(* fetch_vacancies (lines 1183-1225) and its per-card tasks,               *)
(* _parse_vacancy_task (lines 1227-1279). The tasks run interleaved at     *)
(* their awaits; asyncio.as_completed hands their results over in the      *)
(* order they complete.                                                    *)

\* the cards of the listing: with a link to a detail page, with a link to a
\* campaign page (line 1234), without the title span (no "link" key, so line
\* 1234 tests `in None`), without the action table (line 1452 fails)
CardKinds == {"detail", "campaign", "untitled", "broken"}

\* _parse_vacancy_card on card n (lines 1415-1480)
ParseVacancyCard(n, kind) == [card |-> n, link |-> S(kind)]

\* the awaitable as_completed yields for task n
Future(n) == [kind |-> "future", task |-> n]

\* the result is kept when it, not the future, is not None
KeepsOnlyRecords(future, vacancy) == vacancy # PyNone

\* line 1222: `if future is not None`
Keeps(future, vacancy) == future # PyNone

InitVacancies ==
    /\ DenormIdle
    /\ ManualIdle
    /\ RequestIdle
    /\ PagingIdle
    /\ MoreIdle
    /\ cards \in SeqsUpTo(CardKinds, MaxCards)
    /\ task_pc = <<>>
    /\ task_result = <<>>
    /\ completed = <<>>
    /\ vacancies = <<>>
    /\ awaited = 0
    /\ vpc = "start"
    /\ vacancy_out = Pending

\* lines 1198-1218: the listing request; its cards become one task each
FetchListing ==
    /\ vpc = "start"
    /\ \E answer \in {"error", "no_results_html", "cards"} :
          IF answer = "error"
          THEN /\ vpc' = "raised"
               /\ vacancy_out' = [kind |-> "raise"]
               /\ UNCHANGED <<task_pc, task_result>>
          ELSE IF answer = "no_results_html"
          THEN /\ vpc' = "returned"
               /\ vacancy_out' = [kind |-> "return", value |-> PyNone]
               /\ UNCHANGED <<task_pc, task_result>>
          ELSE /\ vpc' = "collect"
               /\ task_pc' = [n \in 1..Len(cards) |-> "created"]
               /\ task_result' = [n \in 1..Len(cards) |-> Pending]
               /\ UNCHANGED vacancy_out
    /\ UNCHANGED <<cards, completed, vacancies, awaited>>
    /\ UNCHANGED <<denormVars, redirectVars, requestVars, pagingVars,
                   moreVars>>

\* task n returns r
TaskReturns(n, r) ==
    /\ task_pc' = [task_pc EXCEPT ![n] = "done"]
    /\ task_result' = [task_result EXCEPT ![n] = r]
    /\ completed' = Append(completed, n)
    /\ UNCHANGED <<vpc, vacancy_out>>

\* the exception leaves the task and reaches the `await future`
TaskFailsUncaught(n) ==
    /\ task_pc' = [task_pc EXCEPT ![n] = "done"]
    /\ task_result' = [task_result EXCEPT ![n] = [kind |-> "raise"]]
    /\ completed' = Append(completed, n)
    /\ vpc' = "raised"
    /\ vacancy_out' = [kind |-> "raise"]

\* lines 1277-1279: any exception inside the task becomes the result None
TaskFails(n) == TaskReturns(n, PyNone)

\* task n goes on to its next await
TaskAwaits(n, label) ==
    /\ task_pc' = [task_pc EXCEPT ![n] = label]
    /\ UNCHANGED <<task_result, completed, vpc, vacancy_out>>

\* lines 1228-1236 / 1262-1265: the task up to its first request
TaskStart(n) ==
    /\ vpc = "collect"
    /\ task_pc[n] = "created"
    /\ IF cards[n] \in {"broken", "untitled"} THEN TaskFails(n)
       ELSE IF cards[n] = "campaign" THEN TaskAwaits(n, "campaign")
       ELSE TaskAwaits(n, "page")
    /\ UNCHANGED <<cards, vacancies, awaited>>
    /\ UNCHANGED <<denormVars, redirectVars, requestVars, pagingVars,
                   moreVars>>

\* lines 1236-1265: the campaign request is answered
TaskCampaign(n) ==
    /\ vpc = "collect"
    /\ task_pc[n] = "campaign"
    /\ \E answer \in {"fails", "href", "no_href"} :
          IF answer = "fails" THEN TaskFails(n)
          ELSE IF answer = "href" THEN TaskAwaits(n, "campaign_page")
          ELSE TaskReturns(n, ParseVacancyCard(n, cards[n]))
    /\ UNCHANGED <<cards, vacancies, awaited>>
    /\ UNCHANGED <<denormVars, redirectVars, requestVars, pagingVars,
                   moreVars>>

\* lines 1265-1276: the detail page request is answered
TaskPage(n) ==
    /\ vpc = "collect"
    /\ task_pc[n] \in {"page", "campaign_page"}
    /\ \E answer \in {"fails", "page"} :
          IF answer = "fails" THEN TaskFails(n)
          ELSE LET parsed == ParseVacancyCard(n, cards[n])
                   linked == IF task_pc[n] = "campaign_page"
                             THEN SetKey(parsed, "link", S("unit"))
                             ELSE parsed
               IN  TaskReturns(n, SetKey(linked, "page", S("data")))
    /\ UNCHANGED <<cards, vacancies, awaited>>
    /\ UNCHANGED <<denormVars, redirectVars, requestVars, pagingVars,
                   moreVars>>

\* the futures are handed over in the order the tasks were created
InSubmissionOrder(order, k) == k

\* line 1220: asyncio.as_completed hands over the k-th future to complete
AsCompleted(order, k) == order[k]

\* lines 1220-1223: the next completed future is awaited
Collect ==
    /\ vpc = "collect"
    /\ awaited < Len(completed)
    /\ LET n == AsCompleted(completed, awaited + 1)
           vacancy == task_result[n]
       IN  vacancies' = (IF Keeps(Future(n), vacancy)
                         THEN Append(vacancies, vacancy) ELSE vacancies)
    /\ awaited' = awaited + 1
    /\ UNCHANGED <<cards, task_pc, task_result, completed, vpc, vacancy_out>>
    /\ UNCHANGED <<denormVars, redirectVars, requestVars, pagingVars,
                   moreVars>>

\* line 1225
ReturnVacancies ==
    /\ vpc = "collect"
    /\ awaited = Len(cards)
    /\ vpc' = "returned"
    /\ vacancy_out' = [kind |-> "return", value |-> L(vacancies)]
    /\ UNCHANGED <<cards, task_pc, task_result, completed, vacancies, awaited>>
    /\ UNCHANGED <<denormVars, redirectVars, requestVars, pagingVars,
                   moreVars>>

NextVacancies ==
    \/ FetchListing
    \/ \E n \in 1..Len(cards) : TaskStart(n)
    \/ \E n \in 1..Len(cards) : TaskCampaign(n)
    \/ \E n \in 1..Len(cards) : TaskPage(n)
    \/ Collect
    \/ ReturnVacancies

SpecVacancies == InitVacancies /\ [][NextVacancies]_vars

-----------------------------------------------------------------------------
(* _merge_moves_data (lines 501-584), applied to parsed move-in and        *)
(* move-out records. A record is a dict of strings (is_overdue: a bool).   *)

\* what _parse_move_ins yields for a row: tenant_name only when the name
\* cell has a value (lines 428-437)
MoveInAnn == [tenant_id |-> "11", tenant_name |-> "Ann",
              property_unit |-> "Elm - 2", property_name |-> "Elm",
              unit |-> "2", move_in_date |-> "01/02"]
MoveInAnnUpper == [tenant_name |-> "ANN", property_unit |-> "Oak - 1",
                   property_name |-> "Oak", unit |-> "1"]
MoveInBob == [tenant_id |-> "12", tenant_name |-> "Bob",
              property_unit |-> "", property_name |-> "", unit |-> ""]
MoveInNameless == [property_unit |-> "", property_name |-> "", unit |-> ""]

\* what _parse_move_outs yields for a row (lines 610-656); MoveOutCy is a
\* record whose property_name the caller left out (lines 565-568)
MoveOutAnn == [tenant_name |-> "Ann", moveout_id |-> "1",
               moveout_type |-> "Notice", move_out_date |-> "03/04",
               is_overdue |-> TRUE]
MoveOutAnnLower == [tenant_name |-> "ann", moveout_id |-> "2"]
MoveOutCy == [tenant_name |-> "Cy", moveout_id |-> "3",
              property_unit |-> "Oak - 1"]
MoveOutNameless == [moveout_type |-> "Eviction"]

MoveInPool == {MoveInAnn, MoveInAnnUpper, MoveInBob, MoveInNameless}
MoveOutPool == {MoveOutAnn, MoveOutAnnLower, MoveOutCy, MoveOutNameless}

\* str.lower() on the names above
Lower(name) ==
    CASE name \in {"Ann", "ANN", "ann"} -> "ann"
      [] name = "Bob" -> "bob"
      [] name = "Cy" -> "cy"
      [] OTHER -> name

\* property_unit.split(" - ", 1), stripped; <<>> when " - " is not in it
SplitUnit(property_unit) ==
    CASE property_unit = "Elm - 2" -> <<"Elm", "2">>
      [] property_unit = "Oak - 1" -> <<"Oak", "1">>
      [] OTHER -> <<>>

\* lines 523-530 and 561-568
PropertyFields(tenant) ==
    LET property_unit == Get(tenant, "property_unit", "")
        property_name == Get(tenant, "property_name", "")
        unit == Get(tenant, "unit", "")
    IN  IF property_name = "" /\ SplitUnit(property_unit) # <<>>
        THEN [property_unit |-> property_unit,
              property_name |-> SplitUnit(property_unit)[1],
              unit |-> SplitUnit(property_unit)[2]]
        ELSE [property_unit |-> property_unit,
              property_name |-> property_name, unit |-> unit]

\* lines 516-518: the dict comprehension, the last move-out with a name wins
MoveoutByName(moveouts) ==
    LET names == {Lower(moveouts[n].tenant_name) : n \in 1..Len(moveouts)}
    IN  [name \in names |->
            LET at == {n \in 1..Len(moveouts) :
                          Lower(moveouts[n].tenant_name) = name}
            IN  moveouts[CHOOSE n \in at : \A m \in at : m <= n]]

\* lines 521-553: the record of one move-in tenant
MergedMoveIn(movein, moveout_by_name) ==
    LET tenant_data ==
            [tenant_id |-> Get(movein, "tenant_id", ""),
             tenant_name |-> Get(movein, "tenant_name", ""),
             property_unit |-> PropertyFields(movein).property_unit,
             property_name |-> PropertyFields(movein).property_name,
             unit |-> PropertyFields(movein).unit,
             move_in_date |-> Get(movein, "move_in_date", ""),
             move_out_date |-> "",
             moveout_type |-> "",
             moveout_id |-> "",
             is_overdue |-> FALSE]
        name == Lower(movein.tenant_name)
    IN  IF name \in DOMAIN moveout_by_name
           /\ DOMAIN moveout_by_name[name] # {}
        THEN LET moveout == moveout_by_name[name] IN
             [tenant_data EXCEPT
                !.move_out_date = Get(moveout, "move_out_date", ""),
                !.moveout_type = Get(moveout, "moveout_type", ""),
                !.moveout_id = Get(moveout, "moveout_id", ""),
                !.is_overdue = Get(moveout, "is_overdue", FALSE)]
        ELSE tenant_data

\* lines 560-581: the record of a move-out tenant without a move-in
MergedMoveOut(moveout) ==
    [tenant_id |-> "",
     tenant_name |-> Get(moveout, "tenant_name", ""),
     property_unit |-> PropertyFields(moveout).property_unit,
     property_name |-> PropertyFields(moveout).property_name,
     unit |-> PropertyFields(moveout).unit,
     move_in_date |-> "",
     move_out_date |-> Get(moveout, "move_out_date", ""),
     moveout_type |-> Get(moveout, "moveout_type", ""),
     moveout_id |-> Get(moveout, "moveout_id", ""),
     is_overdue |-> Get(moveout, "is_overdue", FALSE)]

\* lines 512-584; tenant["tenant_name"] at lines 517, 546 and 559 is a
\* KeyError on a record without the key
MergeMovesData(moveins, moveouts) ==
    IF \/ \E n \in 1..Len(moveouts) : "tenant_name" \notin DOMAIN moveouts[n]
       \/ \E n \in 1..Len(moveins) : "tenant_name" \notin DOMAIN moveins[n]
    THEN [kind |-> "raise", error |-> "KeyError"]
    ELSE LET moveout_by_name == MoveoutByName(moveouts)
             first == [n \in 1..Len(moveins) |->
                          MergedMoveIn(moveins[n], moveout_by_name)]
             processed_names ==
                 {Lower(first[n].tenant_name) : n \in 1..Len(first)}
             rest == SelectSeq(moveouts,
                        LAMBDA t : Lower(t.tenant_name) \notin processed_names)
         IN  [kind |-> "value",
              records |-> first \o [n \in 1..Len(rest) |->
                                       MergedMoveOut(rest[n])]]

InitMerge ==
    /\ DenormIdle
    /\ ManualIdle
    /\ RequestIdle
    /\ PagingIdle
    /\ VacancyIdle
    /\ OpIdle
    /\ SessionIdle
    /\ movein_tenants \in SeqsUpTo(MoveInPool, MaxMoves)
    /\ moveout_tenants \in SeqsUpTo(MoveOutPool, MaxMoves)
    /\ merged_tenants = Pending
    /\ mgpc = "called"

\* lines 590-592: the call
MergeMovesDataCall ==
    /\ mgpc = "called"
    /\ merged_tenants' = MergeMovesData(movein_tenants, moveout_tenants)
    /\ mgpc' = "done"
    /\ UNCHANGED <<movein_tenants, moveout_tenants>>
    /\ UNCHANGED <<denormVars, redirectVars, requestVars, pagingVars,
                   vacancyVars, opVars, sessionVars>>

NextMerge == MergeMovesDataCall

SpecMerge == InitMerge /\ [][NextMerge]_vars

-----------------------------------------------------------------------------
(* The write operations: occupancy_add_attachment (lines 1690-1756),       *)
(* occupancy_add_note (lines 1824-1866) and add_work_order_note (lines     *)
(* 2025-2125). op_log holds, per request sent, the request and its answer. *)

Operations ==
    {"occupancy_add_attachment", "occupancy_add_note", "add_work_order_note"}

OccupancyIds == {1, 2}
Notes == {"", "hi"}

\* _make_request raised (lines 146-180 or a transport error)
RequestRaised == [kind |-> "raise", error |-> "request failed"]

\* IntegrationAPIError raised by the operation itself
OpRaised(message) == [kind |-> "raise", error |-> message]

OpReturned(value) == [kind |-> "return", value |-> value]

\* one entry of op_log
Exchange(request, reply) == [request |-> request, reply |-> reply]

\* the attachment resources a creation answer may hold: complete, without
\* upload parameters, with empty upload parameters, without a key field
UploadParams == [url |-> "https://s3/upload", fields |-> [key |-> "a/f.txt"]]
UploadParamsNoKey == [url |-> "https://s3/upload", fields |-> EmptyDict]
AttachmentResources ==
    {[id |-> "7", attributes |-> [upload_params |-> UploadParams,
                                  download_url |-> "d7", preview_url |-> "p7",
                                  name |-> "f.txt"]],
     [id |-> "8", attributes |-> [upload_params |-> UploadParams]],
     [id |-> "7", attributes |-> [upload_params |-> UploadParamsNoKey]],
     [id |-> "7", attributes |-> [upload_params |-> EmptyDict]],
     [id |-> "7", attributes |-> [name |-> "f.txt"]],
     [id |-> "7"]}

\* the `data` of a creation answer: absent, an empty list, one resource
CreateData ==
    {PyNone, L(<<>>)} \cup {L(<<r>>) : r \in AttachmentResources}

\* the statuses the upload host may answer with
UploadStatuses == {204, 301, 400, 403, 500}

\* what session.post may end with (lines 1802-1803)
Answered(status) == [kind |-> "response", status |-> status]
UploadReplies == {RequestRaised} \cup {Answered(n) : n \in UploadStatuses}

\* any status from 401 on is a failure
UploadRejectedAbove400(status) == status > 400

\* line 1804: response.status >= 400
UploadRejected(status) == status >= 400

\* lines 1752-1755
AttachmentResult(upload_data) ==
    LET attributes == Get(upload_data, "attributes", EmptyDict) IN
    [id |-> Get(upload_data, "id", PyNone),
     download_url |-> Get(attributes, "download_url", PyNone),
     preview_url |-> Get(attributes, "preview_url", PyNone),
     name |-> Get(attributes, "name", PyNone)]

\* _verify_note_creation (lines 1869-1893): the note text is searched in
\* the answer; an empty note is found in every answer (line 1875)
VerifyNoteCreation(response, note) == note = "" \/ response = "shows note"

\* what the new-note fragment may hold (lines 1902-1917, 2073-2091)
Fragments == {"unparsable", "no token", "token"}

\* _fetch_new_note_params (lines 1902-1937): the payload
NewNoteParams(fragment) ==
    IF fragment = "unparsable"
    THEN [error |-> "Could not extract HTML from BlockEdit.displayEdit call"]
    ELSE [authenticity_token |->
             IF fragment = "token" THEN S("tok") ELSE PyNone,
          commit |-> S("Save")]

InitOps ==
    /\ DenormIdle
    /\ ManualIdle
    /\ RequestIdle
    /\ PagingIdle
    /\ VacancyIdle
    /\ MergeIdle
    /\ SessionIdle
    /\ op \in Operations
    /\ op_args \in [id : OccupancyIds, note : Notes]
    /\ (op = "occupancy_add_attachment" => op_args.note = "")
    /\ opc = IF op = "add_work_order_note" THEN "page" ELSE "verify"
    /\ op_log = <<>>
    /\ op_out = Pending
    /\ op_locals = EmptyDict

OpFrame ==
    UNCHANGED <<denormVars, redirectVars, requestVars, pagingVars,
                vacancyVars, mergeVars, sessionVars>>

\* the operation ends with an exception or a value
OpEnds(out) ==
    /\ opc' = "done"
    /\ op_out' = out

\* _verify_occupancy_exists (lines 1669-1688), called at lines 1691 and 1825
VerifyOccupancyExists ==
    /\ opc = "verify"
    /\ \E reply \in {"ok", "errors", "raise"} :
          /\ op_log' = Append(op_log,
                Exchange([method |-> "GET", target |-> "occupancy",
                          id |-> op_args.id], reply))
          /\ IF reply = "raise" THEN OpEnds(RequestRaised)
             ELSE IF reply = "errors" THEN OpEnds(OpRaised("occupancy errors"))
             ELSE /\ opc' = IF op = "occupancy_add_attachment"
                            THEN "create" ELSE "tenants"
                  /\ UNCHANGED op_out
    /\ UNCHANGED <<op, op_args, op_locals>>
    /\ OpFrame

\* lines 1693-1740: the creation POST and what is read from its answer
CreateAttachment ==
    /\ opc = "create"
    /\ \E reply \in {RequestRaised} \cup CreateData :
          /\ op_log' = Append(op_log,
                Exchange([method |-> "POST", target |-> "attachments",
                          id |-> op_args.id], reply))
          /\ IF reply = RequestRaised
             THEN OpEnds(RequestRaised) /\ UNCHANGED op_locals
             ELSE IF reply = PyNone
             THEN OpEnds(OpRaised("TypeError")) /\ UNCHANGED op_locals
             ELSE IF reply.l = <<>>
             THEN /\ OpEnds(OpRaised("Failed to initiate content upload"))
                  /\ UNCHANGED op_locals
             ELSE LET upload_data == reply.l[1]
                      upload_params ==
                          Get(Get(upload_data, "attributes", EmptyDict),
                              "upload_params", EmptyDict)
                  IN  IF DOMAIN upload_params = {}
                      THEN /\ OpEnds(OpRaised(
                                 "No upload parameters received from API"))
                           /\ UNCHANGED op_locals
                      ELSE /\ opc' = "upload"
                           /\ op_locals' = [upload_data |-> upload_data,
                                            upload_params |-> upload_params]
                           /\ UNCHANGED op_out
    /\ UNCHANGED <<op, op_args>>
    /\ OpFrame

\* _upload_attachment (lines 1758-1822), awaited at line 1744
UploadAttachment ==
    /\ opc = "upload"
    /\ IF "key" \notin DOMAIN op_locals.upload_params.fields
       THEN \* line 1777: fields.get("key").split, wrapped at line 1817
            /\ OpEnds(OpRaised("Error uploading attachment"))
            /\ UNCHANGED op_log
       ELSE \E reply \in UploadReplies :
               /\ op_log' = Append(op_log,
                     Exchange([method |-> "POST", target |-> "upload",
                               id |-> op_locals.upload_params.url], reply))
               /\ IF reply = RequestRaised
                  THEN OpEnds(OpRaised("Error uploading attachment"))
                  ELSE IF UploadRejected(reply.status)
                  THEN OpEnds(OpRaised("Error uploading file to S3"))
                  ELSE opc' = "confirm" /\ UNCHANGED op_out
    /\ UNCHANGED <<op, op_args, op_locals>>
    /\ OpFrame

\* lines 1746-1756: the confirmation PUT, then the result
ConfirmAttachment ==
    /\ opc = "confirm"
    /\ \E reply \in {"ok", "raise"} :
          /\ op_log' = Append(op_log,
                Exchange([method |-> "PUT", target |-> "confirm",
                          id |-> Get(op_locals.upload_data, "id", PyNone)],
                         reply))
          /\ IF reply = "raise" THEN OpEnds(RequestRaised)
             ELSE OpEnds(OpReturned(AttachmentResult(op_locals.upload_data)))
    /\ UNCHANGED <<op, op_args, op_locals>>
    /\ OpFrame

\* _fetch_occupancy_tenants (lines 1939-1948) and lines 1827-1835
FetchOccupancyTenants ==
    /\ opc = "tenants"
    /\ \E reply \in {"raise", "none", "empty", "tenant"} :
          /\ op_log' = Append(op_log,
                Exchange([method |-> "GET", target |-> "tenants",
                          id |-> op_args.id], reply))
          /\ IF reply = "raise" THEN OpEnds(RequestRaised)
             ELSE IF reply # "tenant" THEN OpEnds(OpRaised("No tenants found"))
             ELSE opc' = "params" /\ UNCHANGED op_out
    /\ UNCHANGED <<op, op_args, op_locals>>
    /\ OpFrame

\* _fetch_new_note_params (lines 1895-1937) and lines 1836-1837
FetchNewNoteParams ==
    /\ opc = "params"
    /\ \E reply \in {"raise"} \cup Fragments :
          /\ op_log' = Append(op_log,
                Exchange([method |-> "GET", target |-> "notes/new",
                          id |-> op_args.id], reply))
          /\ IF reply = "raise"
             THEN OpEnds(RequestRaised) /\ UNCHANGED op_locals
             ELSE /\ opc' = "post"
                  /\ op_locals' = [payload |-> NewNoteParams(reply)]
                  /\ UNCHANGED op_out
    /\ UNCHANGED <<op, op_args>>
    /\ OpFrame

\* lines 1849-1866: the POST to /notes and its verification
PostOccupancyNote ==
    /\ opc = "post"
    /\ op = "occupancy_add_note"
    /\ \E reply \in {"raise", "shows note", "other"} :
          /\ op_log' = Append(op_log,
                Exchange([method |-> "POST", target |-> "notes",
                          id |-> op_args.id], reply))
          /\ IF reply = "raise" THEN OpEnds(RequestRaised)
             ELSE IF VerifyNoteCreation(reply, op_args.note)
             THEN OpEnds(OpReturned([success |-> TRUE]))
             ELSE OpEnds(OpRaised("Failed to create note"))
    /\ UNCHANGED <<op, op_args, op_locals>>
    /\ OpFrame

\* lines 2035-2059: the work order page and its CSRF token
FetchWorkOrderPage ==
    /\ opc = "page"
    /\ \E reply \in {"raise", "no csrf", "csrf"} :
          /\ op_log' = Append(op_log,
                Exchange([method |-> "GET", target |-> "work_order",
                          id |-> op_args.id], reply))
          /\ IF reply = "raise"
             THEN OpEnds(RequestRaised) /\ UNCHANGED op_locals
             ELSE IF reply = "no csrf"
             THEN /\ OpEnds(OpRaised("Could not find CSRF token"))
                  /\ UNCHANGED op_locals
             ELSE /\ opc' = "form"
                  /\ op_locals' = [csrf_token |-> "csrf"]
                  /\ UNCHANGED op_out
    /\ UNCHANGED <<op, op_args>>
    /\ OpFrame

\* lines 2061-2093: the new-note form and its authenticity token
FetchNewNoteForm ==
    /\ opc = "form"
    /\ \E reply \in {"raise"} \cup Fragments :
          /\ op_log' = Append(op_log,
                Exchange([method |-> "GET", target |-> "notes/new",
                          id |-> op_args.id], reply))
          /\ IF reply = "raise"
             THEN OpEnds(RequestRaised) /\ UNCHANGED op_locals
             ELSE IF reply = "unparsable"
             THEN /\ OpEnds(OpRaised("Could not extract HTML"))
                  /\ UNCHANGED op_locals
             ELSE IF reply = "no token"
             THEN /\ OpEnds(OpRaised("Could not find authenticity token"))
                  /\ UNCHANGED op_locals
             ELSE /\ opc' = "post"
                  /\ op_locals' = [csrf_token |-> op_locals.csrf_token,
                                   payload |-> NewNoteParams(reply)]
                  /\ UNCHANGED op_out
    /\ UNCHANGED <<op, op_args>>
    /\ OpFrame

\* lines 2095-2125: the POST to /notes and its verification
PostWorkOrderNote ==
    /\ opc = "post"
    /\ op = "add_work_order_note"
    /\ \E reply \in {"raise", "shows note", "other"} :
          /\ op_log' = Append(op_log,
                Exchange([method |-> "POST", target |-> "notes",
                          id |-> op_args.id], reply))
          /\ IF reply = "raise" THEN OpEnds(RequestRaised)
             ELSE IF VerifyNoteCreation(reply, op_args.note)
             THEN OpEnds(OpReturned([success |-> TRUE]))
             ELSE OpEnds(OpRaised("Failed to create note"))
    /\ UNCHANGED <<op, op_args, op_locals>>
    /\ OpFrame

NextOps ==
    \/ VerifyOccupancyExists
    \/ CreateAttachment
    \/ UploadAttachment
    \/ ConfirmAttachment
    \/ FetchOccupancyTenants
    \/ FetchNewNoteParams
    \/ PostOccupancyNote
    \/ FetchWorkOrderPage
    \/ FetchNewNoteForm
    \/ PostWorkOrderNote

SpecOps == InitOps /\ [][NextOps]_vars

-----------------------------------------------------------------------------
(* The credentials and header mappings of the instance (lines 25-58) and   *)
(* the header mapping each operation hands to _make_request, with up to    *)
(* MaxTasks operations running concurrently. A `headers` local is a        *)
(* reference: to a mapping of its own, or to the shared self.headers.      *)

Tasks == 1..MaxTasks

Domain == "acme.appfolio.com"
UserAgent == "Mozilla/5.0"

\* the tokens argument: None, a cookie string, a dict (its items in
\* insertion order)
DictTokens(items) == [kind |-> "dict", items |-> items]
TokensPool ==
    {PyNone, S("sid=1"),
     DictTokens(<<<<"b", "2">>, <<"a", "1">>>>)}

RECURSIVE CookieDictToString(_)
\* _cookie_dict_to_string (lines 56-58): "; ".join of key=value
CookieDictToString(items) ==
    IF items = <<>> THEN ""
    ELSE LET pair == items[1][1] \o "=" \o items[1][2] IN
         IF Len(items) = 1 THEN pair
         ELSE pair \o "; " \o CookieDictToString(Tail(items))

\* lines 44-45 and 50-51: cookie_str
CookieStr(tokens) ==
    IF tokens.kind = "dict" THEN S(CookieDictToString(tokens.items))
    ELSE tokens

\* d | extra: the entries of extra set in d
Merge(d, extra) ==
    [k \in DOMAIN d \cup DOMAIN extra |->
        IF k \in DOMAIN extra THEN extra[k] ELSE d[k]]

\* the local names the very mapping it was given
AliasOf(h) == [ref |-> "shared"]

\* dict.copy(), or a dict display: a mapping of the task's own
CopyOf(h) == [ref |-> "own", d |-> h]

NoHeaders == [ref |-> "none"]

\* the mapping a `headers` local refers to
Deref(h) == IF h.ref = "own" THEN h.d ELSE self_headers

VndApiJson == S("application/vnd.api+json")

\* The requests of an operation, in order. build: how `headers` is made
\* ("copy": self.headers.copy(); "fresh": a dict display that reads
\* self.cookie_string; "keep": the mapping of the previous request);
\* set: the entries assigned; target: the site's pages or its /api surface.
OpSteps(name) ==
    CASE name = "fetch_all_tenants" ->        \* lines 353-361 (and 312-317,
                                              \* 664-671, 1571-1580)
           <<[build |-> "fresh", target |-> "site",
              set |-> [accept |-> S("application/json"),
                       priority |-> S("u=1, i")]]>>
      [] name = "_parse_vacancy_task" ->      \* lines 1229-1271
           <<[build |-> "copy", target |-> "site",
              set |-> [Accept |-> S("*/*")]],
             [build |-> "keep", target |-> "site", set |-> EmptyDict]>>
      [] name = "occupancy_add_attachment" -> \* lines 1670-1676, 1693-1748
           <<[build |-> "copy", target |-> "api",
              set |-> ("Accept" :> VndApiJson
                       @@ "Accept-Version" :> S("v2"))],
             [build |-> "copy", target |-> "api",
              set |-> ("Accept" :> VndApiJson
                       @@ "Accept-Version" :> S("v2")
                       @@ "Content-Type" :> VndApiJson)],
             [build |-> "keep", target |-> "api",
              set |-> [Referer |-> S("/occupancies/1")]]>>
      [] name = "add_work_order_note" ->      \* lines 2037-2115
           <<[build |-> "copy", target |-> "site",
              set |-> [Accept |-> S("text/html")]],
             [build |-> "copy", target |-> "site",
              set |-> ("X-CSRF-Token" :> S("csrf")
                       @@ "Accept" :> S("text/javascript"))],
             [build |-> "copy", target |-> "site",
              set |-> ("X-CSRF-Token" :> S("csrf")
                       @@ "Accept" :> S("*/*;q=0.5")
                       @@ "Content-Type" :> S("form"))]>>

ClientOperations ==
    {"fetch_all_tenants", "_parse_vacancy_task", "occupancy_add_attachment",
     "add_work_order_note"}

IdleTask == [op |-> "none", at |-> "idle"]

\* the statuses a request is answered with here
SessionStatuses == {200, 401}

\* the instance as constructed (lines 25-33), the tasks not started
InitSession ==
    /\ DenormIdle
    /\ ManualIdle
    /\ RequestIdle
    /\ PagingIdle
    /\ VacancyIdle
    /\ MergeIdle
    /\ OpIdle
    /\ self_headers = PyNone
    /\ cookie_string = PyNone
    /\ init_tokens = <<>>
    /\ local_headers = [t \in Tasks |-> NoHeaders]
    /\ local_pc = [t \in Tasks |-> IdleTask]

SessionFrame ==
    UNCHANGED <<denormVars, network_requester, proxy_rotations, method, url,
                max_redirects, kwargs, redirect_count, current_url,
                current_method, rpc, sent, received, outcome, requestVars,
                pagingVars, vacancyVars, mergeVars, opVars>>

\* initialize (lines 35-54)
Initialize ==
    /\ \E tokens \in TokensPool :
          /\ init_tokens' = <<tokens>>
          /\ IF tokens # PyNone
             THEN /\ token' = CookieStr(tokens)
                  /\ self_headers' = ("Host" :> S(Domain)
                                      @@ "User-Agent" :> S(UserAgent)
                                      @@ "Cookie" :> CookieStr(tokens))
                  /\ cookie_string' = CookieStr(tokens)
             ELSE /\ self_headers' = ("Host" :> S(Domain)
                                      @@ "User-Agent" :> S(UserAgent))
                  /\ UNCHANGED <<token, cookie_string>>
    /\ UNCHANGED <<local_headers, local_pc>>
    /\ SessionFrame

\* Task t builds the headers of request n of its operation and awaits
\* _make_request; no other task runs between the two.
SendRequest(t, name, n) ==
    LET step == OpSteps(name)[n]
        base == CASE step.build = "copy" -> CopyOf(self_headers)
                  [] step.build = "keep" -> local_headers[t]
                  [] step.build = "fresh" -> CopyOf([cookie |-> cookie_string])
    IN  IF step.build = "fresh" /\ cookie_string = PyNone
        THEN \* a header value None is no header: the request fails
             /\ local_pc' = [local_pc EXCEPT
                   ![t] = [op |-> "none", at |-> "raised",
                           error |-> [kind |-> "raise", error |-> "TypeError"],
                           tokens |-> init_tokens]]
             /\ local_headers' = [local_headers EXCEPT ![t] = NoHeaders]
             /\ UNCHANGED self_headers
        ELSE /\ local_pc' = [local_pc EXCEPT
                   ![t] = [op |-> name, step |-> n, at |-> "awaiting"]]
             /\ IF base.ref = "own"
                THEN /\ local_headers' = [local_headers EXCEPT
                           ![t] = CopyOf(Merge(base.d, step.set))]
                     /\ UNCHANGED self_headers
                ELSE /\ local_headers' = [local_headers EXCEPT ![t] = base]
                     /\ self_headers' = Merge(self_headers, step.set)

\* an operation of the client is called in task t and runs up to its first
\* request
StartOperation(t) ==
    /\ self_headers # PyNone
    /\ local_pc[t] = IdleTask
    /\ \E name \in ClientOperations : SendRequest(t, name, 1)
    /\ UNCHANGED <<token, cookie_string, init_tokens>>
    /\ SessionFrame

\* The request of task t is answered: _handle_response (lines 146-180)
\* raises, or returns and the operation runs up to its next request or its
\* end.
ReceiveResponse(t) ==
    /\ local_pc[t].at = "awaiting"
    /\ \E status \in SessionStatuses :
          LET handled_as == HandleResponse(status, token, network_requester)
              name == local_pc[t].op
          IN  IF handled_as.kind = "raise"
              THEN /\ local_pc' = [local_pc EXCEPT
                         ![t] = [op |-> "none", at |-> "raised",
                                 error |-> handled_as,
                                 tokens |-> init_tokens]]
                   /\ local_headers' = [local_headers EXCEPT ![t] = NoHeaders]
                   /\ UNCHANGED self_headers
              ELSE IF local_pc[t].step = Len(OpSteps(name))
              THEN /\ local_pc' = [local_pc EXCEPT
                         ![t] = [op |-> "none", at |-> "returned"]]
                   /\ local_headers' = [local_headers EXCEPT ![t] = NoHeaders]
                   /\ UNCHANGED self_headers
              ELSE SendRequest(t, name, local_pc[t].step + 1)
    /\ UNCHANGED <<token, cookie_string, init_tokens>>
    /\ SessionFrame

NextSession ==
    \/ Initialize
    \/ \E t \in Tasks : StartOperation(t)
    \/ \E t \in Tasks : ReceiveResponse(t)

SpecSession == InitSession /\ [][NextSession]_vars

-----------------------------------------------------------------------------
(* What the claims about denormalize_response speak of.                    *)

Done == pc \in {"returned", "raised"}

HasTypeAndId(r) == "type" \in DOMAIN r /\ "id" \in DOMAIN r

WellFormedPayload ==
    /\ "data" \in DOMAIN response_json
    /\ \A n \in 1..Len(response_json.data) : HasTypeAndId(response_json.data[n])
    /\ \A n \in 1..Len(Included(response_json)) :
           HasTypeAndId(Included(response_json)[n])

\* the positions of `included` holding a resource with this (type, id)
PositionsOf(ref) ==
    {n \in 1..Len(Included(response_json)) :
        /\ HasTypeAndId(Included(response_json)[n])
        /\ Included(response_json)[n].type = ref.type
        /\ Included(response_json)[n].id = ref.id}

InIncluded(ref) == PositionsOf(ref) # {}

\* the last resource of `included` with this (type, id)
LastIncluded(ref) ==
    Included(response_json)[CHOOSE n \in PositionsOf(ref) :
                                \A m \in PositionsOf(ref) : m <= n]

\* a target's attributes, with its own id and type on top
Flattened(t) ==
    [k \in DOMAIN Get(t, "attributes", EmptyDict) \cup {"id", "type"} |->
        IF k = "id" THEN S(t.id)
        ELSE IF k = "type" THEN S(t.type)
        ELSE t.attributes[k]]

IsSingle(rel) ==
    /\ rel # PyNone
    /\ "data" \in DOMAIN rel
    /\ rel.data # PyNone
    /\ rel.data.kind = "ref"

IsList(rel) ==
    /\ rel # PyNone
    /\ "data" \in DOMAIN rel
    /\ rel.data # PyNone
    /\ rel.data.kind = "list"

\* a null relationship, one without `data`, or one whose `data` is null
IsAbsent(rel) == ~IsSingle(rel) /\ ~IsList(rel)

\* the (data index, relationship index) pairs of the payload
RelPlaces ==
    UNION {{<<n, j>> : j \in 1..Len(RelsOf(response_json.data[n]))} :
              n \in 1..Len(response_json.data)}

RelAt(place) == RelsOf(response_json.data[place[1]])[place[2]]
RecordAt(place) == returned.records[place[1]]

\* C1: every payload whose data resources all have type and id (and whose
\* included resources do) yields exactly one record per entry of data, in
\* the order of data, each with the id and type of its entry unless an
\* attribute or a link overrides them.
C1_OneRecordPerEntry ==
    (Done /\ WellFormedPayload) =>
        /\ returned.kind = "value"
        /\ Len(returned.records) = Len(response_json.data)
        /\ \A n \in 1..Len(response_json.data) :
              LET d == response_json.data[n]
                  over == DOMAIN Get(d, "attributes", EmptyDict)
                            \cup DOMAIN Get(d, "links", EmptyDict)
              IN  /\ "id" \notin over => returned.records[n].id = S(d.id)
                  /\ "type" \notin over => returned.records[n].type = S(d.type)

\* C2: a list relationship's key is in the record iff at least one of its
\* references resolves; then its value is the flattened resolved targets, in
\* reference order.
C2_ListKeyIffSomeResolved ==
    pc = "returned" =>
        \A place \in RelPlaces :
            IsList(RelAt(place).rel) =>
                LET refs == RelAt(place).rel.data.refs
                    kept == SelectSeq(refs, InIncluded)
                    name == RelAt(place).name
                IN  /\ name \in DOMAIN RecordAt(place) <=> Len(kept) > 0
                    /\ name \in DOMAIN RecordAt(place) =>
                          RecordAt(place)[name] =
                             L([n \in 1..Len(kept) |->
                                   Flattened(LastIncluded(kept[n]))])

\* C3: a single-reference relationship's key is in the record iff the
\* referenced (type, id) is in `included`; its value is then the target's
\* attributes with the target's own id and type on top. A null relationship,
\* one without `data` and one whose `data` is null add no key.
C3_SingleKeyIffResolved ==
    pc = "returned" =>
        \A place \in RelPlaces :
            LET e == RelAt(place)
                rec == RecordAt(place)
            IN  /\ IsAbsent(e.rel) => e.name \notin DOMAIN rec
                /\ IsSingle(e.rel) =>
                      /\ e.name \in DOMAIN rec <=> InIncluded(e.rel.data.ref)
                      /\ InIncluded(e.rel.data.ref) =>
                            rec[e.name] =
                               O(Flattened(LastIncluded(e.rel.data.ref)))

\* a resolved target with an attribute named `id`, an unresolved single
\* reference and a null relationship, in one returned payload
C3_Witness ==
    /\ pc = "returned"
    /\ \E place \in RelPlaces :
          /\ IsSingle(RelAt(place).rel)
          /\ InIncluded(RelAt(place).rel.data.ref)
          /\ "id" \in DOMAIN Get(LastIncluded(RelAt(place).rel.data.ref),
                                 "attributes", EmptyDict)
    /\ \E place \in RelPlaces :
          /\ IsSingle(RelAt(place).rel)
          /\ ~InIncluded(RelAt(place).rel.data.ref)
    /\ \E place \in RelPlaces : IsAbsent(RelAt(place).rel)

\* the relationships of target t that resolve to a single nested target
NestedResolved(t) ==
    {k \in 1..Len(RelsOf(t)) :
        /\ IsSingle(RelsOf(t)[k].rel)
        /\ InIncluded(RelsOf(t)[k].rel.data.ref)}

\* the places whose relationship resolves to a single target
SingleResolved ==
    {place \in RelPlaces :
        /\ IsSingle(RelAt(place).rel)
        /\ InIncluded(RelAt(place).rel.data.ref)}

TargetAt(place) == LastIncluded(RelAt(place).rel.data.ref)

\* C4: when relationship R resolves to a single target T, each relationship
\* N of T that resolves puts the flattened nested target under the top-level
\* key "R_N" of the outer record, beside R and not inside the value of R,
\* which holds only T's attributes, id and type.
C4_NestedKeysAreSiblings ==
    pc = "returned" =>
        \A place \in SingleResolved :
            LET R == RelAt(place).name
                T == TargetAt(place)
                rec == RecordAt(place)
            IN  /\ rec[R] = O(Flattened(T))
                /\ \A k \in NestedResolved(T) :
                      LET N == RelsOf(T)[k]
                          key == R \o "_" \o N.name
                      IN  /\ key \in DOMAIN rec
                          /\ rec[key] =
                                O(Flattened(LastIncluded(N.rel.data.ref)))
                          /\ key \notin DOMAIN rec[R].o
                          /\ N.name \notin DOMAIN rec[R].o

\* a returned record with a resolved relationship whose target has a
\* resolved relationship of its own
C4_Witness ==
    /\ pc = "returned"
    /\ \E place \in SingleResolved : NestedResolved(TargetAt(place)) # {}

RECURSIVE SetSum(_, _)
SetSum(f, set) ==
    IF set = {} THEN 0
    ELSE LET x == CHOOSE y \in set : TRUE
         IN  f[x] + SetSum(f, set \ {x})

\* the resolve_relationship calls the claim allows: one per relationship of
\* a data resource, one per relationship of each resolved single target
VisitsAllowed ==
    SetSum([place \in RelPlaces |->
               1 + (IF place \in SingleResolved
                    THEN Len(RelsOf(TargetAt(place)))
                    ELSE 0)],
           RelPlaces)

\* the keys record n may hold: base fields, its relationships' names, and
\* "R_N" for the relationships N of the single target of R
KeysAllowed(n) ==
    LET d == response_json.data[n] IN
    {"id", "type"}
    \cup DOMAIN Get(d, "attributes", EmptyDict)
    \cup DOMAIN Get(d, "links", EmptyDict)
    \cup {RelsOf(d)[j].name : j \in 1..Len(RelsOf(d))}
    \cup UNION {{RelAt(place).name \o "_" \o RelsOf(TargetAt(place))[k].name :
                    k \in 1..Len(RelsOf(TargetAt(place)))} :
                  place \in {q \in SingleResolved : q[1] = n}}

\* where the call stands, as a tuple that grows lexicographically
Progress ==
    << IF pc = "lookup" THEN 0 ELSE IF Done THEN 2 ELSE 1,
       inc_i,
       item_i,
       IF pc \in {"rels", "nested"} THEN 1 ELSE 0,
       rel_j,
       IF pc = "nested" THEN 1 ELSE 0,
       nested_k >>

LexLess(a, b) ==
    \E i \in 1..Len(a) :
        /\ a[i] < b[i]
        /\ \A j \in 1..(i - 1) : a[j] = b[j]

C5_State ==
    /\ ~Done => ENABLED NextDenorm
    /\ inc_i <= Len(Included(response_json)) + 1
    /\ pc \in {"item", "rels", "nested", "returned"} =>
          /\ item_i <= Len(response_json.data) + 1
          /\ resolve_calls <= VisitsAllowed
    /\ pc \in {"rels", "nested"} =>
          rel_j <= Len(RelsOf(response_json.data[item_i])) + 1
    /\ pc = "nested" => nested_k <= Len(RelsOf(resolved.item)) + 1
    /\ pc = "returned" =>
          /\ resolve_calls = VisitsAllowed
          /\ \A n \in 1..Len(returned.records) :
                DOMAIN returned.records[n] \subseteq KeysAllowed(n)

\* C5: the call always terminates, also on self-references and cycles: every
\* step advances a bounded position, each relationship of a data resource
\* and of a resolved single target is resolved once, and the relationships
\* of a nested target are never resolved and give no key.
C5_TwoLevelsThenStop ==
    /\ []C5_State
    /\ [][LexLess(Progress, Progress')]_vars

\* a returned payload whose nested target has a relationship that resolves
\* (a self-reference or a cycle among the included resources)
C5_Witness ==
    /\ pc = "returned"
    /\ \E place \in SingleResolved :
          \E k \in NestedResolved(TargetAt(place)) :
              NestedResolved(LastIncluded(
                  RelsOf(TargetAt(place))[k].rel.data.ref)) # {}

\* what last-writer-wins over seed, attributes, links gives for key k of d
BaseValue(d, k) ==
    IF k \in DOMAIN Get(d, "links", EmptyDict) THEN d.links[k]
    ELSE IF k \in DOMAIN Get(d, "attributes", EmptyDict) THEN d.attributes[k]
    ELSE IF k = "id" THEN S(d.id)
    ELSE S(d.type)

BaseKeys(d) ==
    {"id", "type"} \cup DOMAIN Get(d, "attributes", EmptyDict)
                   \cup DOMAIN Get(d, "links", EmptyDict)

\* C7: the base fields of a record are the id/type seed, overlaid with the
\* attributes, overlaid with the links: an attribute named id or type
\* replaces the seed, a link replaces an attribute or seed of its name.
C7_BaseFieldsLastWriterWins ==
    /\ pc \in {"rels", "nested"} =>
          \A k \in BaseKeys(response_json.data[item_i]) :
              /\ k \in DOMAIN result
              /\ result[k] = BaseValue(response_json.data[item_i], k)
    /\ pc = "returned" =>
          \A n \in 1..Len(returned.records) :
              \A k \in BaseKeys(response_json.data[n]) :
                  /\ k \in DOMAIN returned.records[n]
                  /\ returned.records[n][k] = BaseValue(response_json.data[n], k)

\* a returned record whose id comes from an attribute, whose type comes from
\* a link and whose link replaced an attribute of the same name
C7_Witness ==
    /\ pc = "returned"
    /\ \E n \in 1..Len(returned.records) :
          LET d == response_json.data[n] IN
          /\ "id" \in DOMAIN Get(d, "attributes", EmptyDict)
          /\ "type" \in DOMAIN Get(d, "links", EmptyDict)
          /\ DOMAIN Get(d, "attributes", EmptyDict)
                \cap DOMAIN Get(d, "links", EmptyDict) # {}
          /\ returned.records[n].id # S(d.id)

\* the flattened targets held by a record: single values and list elements
TargetsIn(rec) ==
    {rec[k].o : k \in {x \in DOMAIN rec : rec[x].kind = "obj"}}
    \cup UNION {{rec[k].l[m] : m \in 1..Len(rec[k].l)} :
                  k \in {x \in DOMAIN rec : rec[x].kind = "list"}}

\* C8: with several included resources of one (type, id), the lookup holds
\* the last of them, and every target in an output record, at the first and
\* at the nested level, is the last resource of its (type, id).
C8_LastDuplicateWins ==
    /\ \A key \in DOMAIN included_lookup :
          LET ref == Ref(key[1], key[2])
              seen == {n \in PositionsOf(ref) : n < inc_i}
          IN  /\ seen # {}
              /\ included_lookup[key] =
                    Included(response_json)[CHOOSE n \in seen :
                                                \A m \in seen : m <= n]
    /\ pc = "returned" =>
          \A n \in 1..Len(returned.records) :
              \A t \in TargetsIn(returned.records[n]) :
                  /\ InIncluded(Ref(t.type.s, t.id.s))
                  /\ t = Flattened(LastIncluded(Ref(t.type.s, t.id.s)))

\* two different included resources share a (type, id) that a data resource
\* references, and the target's own relationship references it again
C8_Witness ==
    /\ pc = "returned"
    /\ \E place \in SingleResolved :
          /\ \E a, b \in PositionsOf(RelAt(place).rel.data.ref) :
                Included(response_json)[a] # Included(response_json)[b]
          /\ \E k \in NestedResolved(TargetAt(place)) :
                Cardinality(PositionsOf(
                    RelsOf(TargetAt(place))[k].rel.data.ref)) > 1

\* C9: a payload without `data`, or with a data or included resource that
\* lacks type or id, makes the call raise; nothing is returned, not even the
\* records of the well-formed entries before the malformed one.
C9_ShapeErrorsFailTheCall ==
    (Done /\ ~WellFormedPayload) =>
        /\ pc = "raised"
        /\ returned.kind = "error"

\* the call raised at a malformed data entry after building a record
C9_Witness ==
    /\ pc = "raised"
    /\ Len(records) > 0
    /\ ~HasTypeAndId(response_json.data[item_i])

\* C6: a later call on the payload of the first call hands back what the
\* first call handed back, whatever was denormalized in between; the lookup
\* of a call holds nothing but the current payload's included resources;
\* and no step of a call changes the payload.
C6_SameOutputNoCarriedState ==
    /\ [](/\ (Done /\ response_json = first_json) => returned = first_returned
          /\ \A key \in DOMAIN included_lookup :
                InIncluded(Ref(key[1], key[2])))
    /\ [][calls' = calls => response_json' = response_json]_vars

\* the third call repeats the first after a call on another payload, and
\* returns a record with a resolved relationship
C6_Witness ==
    /\ calls = <<"first", "other", "same">>
    /\ pc = "returned"
    /\ SingleResolved # {}

-----------------------------------------------------------------------------
(* What the claims about the manual redirect loop speak of.                *)

RedirectDone == rpc \in {"returned", "raised"}

\* a redirect status with a Location header to follow (line 115 takes an
\* empty value for a missing header)
IsFollowableRedirect(response) ==
    /\ "failed" \notin DOMAIN response
    /\ response.status \in RedirectStatuses
    /\ "Location" \in DOMAIN response.headers
    /\ response.headers.Location # <<>>

C10_State ==
    /\ Len(sent) <= max_redirects
    /\ Len(received) = Len(sent)
    /\ ~RedirectDone => ENABLED NextRedirect
    /\ RedirectDone =>
          (outcome = RaiseTooManyRedirects(max_redirects)
             <=> /\ Len(received) = max_redirects
                 /\ \A n \in 1..Len(received) :
                       IsFollowableRedirect(received[n]))
    /\ (RedirectDone /\ max_redirects = 0) =>
          /\ sent = <<>>
          /\ outcome = RaiseTooManyRedirects(max_redirects)

\* C10: one invocation issues at most max_redirects requests; it raises
\* "Too many redirects" exactly when each of max_redirects responses was a
\* redirect with a Location; every step that stays in the loop has followed
\* one more redirect, so the loop ends; with max_redirects = 0 it raises
\* without a request.
C10_RedirectLoopBounded ==
    /\ []C10_State
    /\ [][(rpc = "loop" /\ rpc' = "loop") =>
             /\ redirect_count' = redirect_count + 1
             /\ redirect_count' <= max_redirects
             /\ Len(sent') = redirect_count']_vars

\* the server redirected max_redirects >= 2 times and the call gave up
C10_Witness ==
    /\ rpc = "raised"
    /\ outcome = RaiseTooManyRedirects(max_redirects)
    /\ max_redirects >= 2
    /\ Len(sent) = max_redirects

-----------------------------------------------------------------------------
(* Claims about the requests of the manual redirect loop.                  *)

\* the responses before request n of the loop that had status 303
SeeOtherBefore(n) == {m \in 1..(n - 1) : received[m].status = 303}

\* C11: after a 303 response every later request of the loop uses GET and
\* the method never changes back; a 301, 302, 307 or 308 response leaves the
\* method of the next request as it was.
C11_SeeOtherForcesGet ==
    /\ \A n \in 1..Len(sent) :
          /\ n = 1 => sent[n].method = method
          /\ SeeOtherBefore(n) # {} => sent[n].method = "GET"
          /\ (n > 1 /\ received[n - 1].status \in {301, 302, 307, 308})
                => sent[n].method = sent[n - 1].method
    /\ rpc = "loop" =>
          current_method = (IF SeeOtherBefore(Len(sent) + 1) # {}
                            THEN "GET" ELSE method)

\* a POST was answered 303 and the GET that followed was answered 307, and
\* the request after that was a GET again
C11_Witness ==
    /\ method = "POST"
    /\ Len(sent) >= 3
    /\ received[1].status = 303
    /\ received[2].status = 307
    /\ sent[2].method = "GET"
    /\ sent[3].method = "GET"

\* a URL with a scheme and a host
IsAbsoluteUrl(u) ==
    /\ Len(u) >= 3
    /\ u[2] = "://"
    /\ u[1] # ""
    /\ u[3] # ""

\* C12: every request URL of the loop is absolute; a relative Location is
\* resolved against the scheme and host of the URL whose response carried it
\* and an absolute Location is used unchanged.
C12_EveryRequestUrlAbsolute ==
    \A n \in 1..Len(sent) :
       /\ IsAbsoluteUrl(sent[n].url)
       /\ n > 1 =>
             LET location == received[n - 1].headers.Location
                 before == sent[n - 1].url
             IN  IF IsAbsoluteUrl(location)
                 THEN sent[n].url = location
                 ELSE /\ sent[n].url[1] = before[1]
                      /\ sent[n].url[3] = before[3]

\* C18: every request of the loop carries the headers, query parameters and
\* body of the original call; only the URL and the method differ.
C18_KwargsOnEveryHop ==
    /\ kwargs \in CallKwargs(token)
    /\ \A n \in 1..Len(sent) :
          /\ sent[n].kwargs = kwargs
          /\ DOMAIN sent[n] = {"method", "url", "allow_redirects", "kwargs"}
          /\ sent[n].allow_redirects = FALSE

\* a POST with a body was redirected to another host and then answered 303:
\* the third request is a GET to the other host with the same arguments
C18_Witness ==
    /\ method = "POST"
    /\ "data" \in DOMAIN kwargs
    /\ Len(sent) >= 3
    /\ received[1].status = 307
    /\ received[1].headers.Location = LocationAbsolute
    /\ received[2].status = 303
    /\ sent[3].method = "GET"
    /\ sent[3].url[3] # sent[1].url[3]
    /\ sent[3].kwargs = kwargs

-----------------------------------------------------------------------------
(* Claims about _make_request and its fallback.                            *)

\* request n was issued by the manual redirect loop
IsLoopRequest(n) ==
    /\ "allow_redirects" \in DOMAIN sent[n]
    /\ sent[n].allow_redirects = FALSE

\* answer n is a redirect status without a Location header
IsRedirectWithoutLocation(n) ==
    /\ "failed" \notin DOMAIN received[n]
    /\ received[n].status \in RedirectStatuses
    /\ "Location" \notin DOMAIN received[n].headers

\* C13: a redirect response without a Location header inside the manual
\* loop ends the loop at once with an IntegrationAPIError naming the status;
\* the call issues no further request, _make_request does not start the loop
\* again and hands the same error to its caller.
C13_NoLocationEndsTheCall ==
    \A n \in 1..Len(received) :
       (IsLoopRequest(n) /\ IsRedirectWithoutLocation(n)) =>
          /\ n = Len(sent)
          /\ rpc = "raised"
          /\ outcome = [kind |-> "raise", error |-> "IntegrationAPIError",
                        message |-> "no Location header",
                        status |-> received[n].status]
          /\ \A k \in 1..Len(loop_starts) : loop_starts[k] < n
          /\ mpc \in {"manual_try", "manual_except", "done"}
          /\ mpc = "done" => made = outcome
          /\ mpc # "done" => ENABLED ManualRedirectEnds

\* the automatic attempt ended on a redirect status, the manual loop followed
\* one redirect and then got a 307 without Location: the caller has the error
C13_Witness ==
    /\ mpc = "done"
    /\ Len(sent) = 3
    /\ received[1].status = 302
    /\ IsRedirectWithoutLocation(3)
    /\ made.kind = "raise"
    /\ made.message = "no Location header"
    /\ made.status = 307

\* C14: without a custom requester the first request has automatic redirects
\* enabled; the manual loop is entered exactly when that attempt ended on
\* 301/302/303/307/308 or raised a transport error; otherwise the response
\* is handled once and no second request is made; the manual loop starts
\* from the original URL and method.
C14_FallbackIffRedirectOrTransportError ==
    (network_requester = PyNone /\ mpc # "start") =>
       LET fallback == \/ "failed" \in DOMAIN received[1]
                       \/ received[1].status \in {301, 302, 303, 307, 308}
       IN  /\ sent[1].method = method
           /\ sent[1].url = url
           /\ sent[1].allow_redirects = TRUE
           /\ loop_starts # <<>> <=> fallback
           /\ ~fallback =>
                 /\ mpc = "done"
                 /\ handled = 1
                 /\ Len(sent) = 1
                 /\ made.kind \in {"return", "raise"}
           /\ fallback => loop_starts[1] = 1
           /\ \A k \in 1..Len(loop_starts) :
                 /\ Len(sent) > loop_starts[k] =>
                       /\ sent[loop_starts[k] + 1].url = url
                       /\ sent[loop_starts[k] + 1].method = method
                       /\ sent[loop_starts[k] + 1].allow_redirects = FALSE
                 /\ (rpc = "loop" /\ Len(sent) = loop_starts[k]) =>
                       /\ current_url = url
                       /\ current_method = method
                       /\ redirect_count = 0

\* a POST whose automatic attempt ended on 303: the manual loop's first
\* request is the POST to the original URL again
C14_Witness ==
    /\ network_requester = PyNone
    /\ method = "POST"
    /\ Len(sent) >= 2
    /\ received[1].status = 303
    /\ sent[2].method = "POST"
    /\ sent[2].url = url
    /\ sent[2].allow_redirects = FALSE

-----------------------------------------------------------------------------
(* Claims about _handle_response.                                          *)

HandlerDone == hpc \in {"returned", "raised"}

\* the outcomes named by the claims, spelled out
TextReturned(status) ==
    /\ hpc = "returned"
    /\ outcome = [kind |-> "return", value |-> "text", status |-> status]

NoCredentialsRaised ==
    /\ hpc = "raised"
    /\ outcome = [kind |-> "raise", error |-> "IntegrationAuthError",
                  message |-> "No access token", status_code |-> 400]

StatusAndReasonRaised(status) ==
    /\ hpc = "raised"
    /\ outcome = [kind |-> "raise", error |-> "IntegrationAuthError",
                  message |-> "status and reason", status_code |-> status]

ApiErrorRaised(status) ==
    /\ hpc = "raised"
    /\ outcome = [kind |-> "raise", error |-> "IntegrationAPIError",
                  message |-> "status and headers", status_code |-> status]

RetryReturned ==
    /\ hpc = "returned"
    /\ outcome = [kind |-> "return", value |-> "IntegrationAPIError",
                  error_code |-> "retry_request", status_code |-> 403]

C16_Forbidden403WithoutTokenIsNoCredentials ==
    (HandlerDone /\ received[1].status = 403 /\ token = PyNone)
       => NoCredentialsRaised

\* C17: with a custom network requester a 403 rotates the proxy once and
\* returns the retry_request IntegrationAPIError as a value, without raising
\* and without a request of its own; no other status rotates the proxy.
C17_Proxied403RotatesOnceAndReturnsRetry ==
    /\ sent = <<>>
    /\ ~HandlerDone => proxy_rotations = 0
    /\ (HandlerDone /\ network_requester # PyNone) =>
          IF received[1].status = 403
          THEN /\ proxy_rotations = 1
               /\ RetryReturned
          ELSE /\ proxy_rotations = 0
               /\ outcome.kind = "return" => outcome.value = "text"

\* a 403 with a requester and a token: one rotation, the retry error returned
C17_Witness ==
    /\ HandlerDone
    /\ network_requester # PyNone
    /\ token # PyNone
    /\ received[1].status = 403
    /\ proxy_rotations = 1
    /\ RetryReturned

-----------------------------------------------------------------------------
(* Claims about the pagination loops.                                      *)

\* C19: every pagination loop requests the pages 1, 2, 3, ... one after
\* another and requests no page after one that was empty or that repeated
\* the page before it verbatim.
C19_PaginationStopsOnEmptyOrRepeat ==
    /\ \A n \in 1..Len(page_log) : page_log[n].page = n
    /\ \A n \in 1..(Len(page_log) - 1) :
          /\ page_log[n].answer.kind = "json"
          /\ page_log[n].answer.items # <<>>
          /\ n > 1 => page_log[n].answer # page_log[n - 1].answer

-----------------------------------------------------------------------------
(* Claims about fetch_vacancies.                                           *)

\* the tasks that ended in an exception
FailedTasks == {n \in DOMAIN task_result : task_result[n] = PyNone}

\* the tasks that returned their card's record
SucceededTasks ==
    {n \in DOMAIN task_result : task_result[n] \notin {Pending, PyNone}}

\* C20: one task per card; a failed task neither stops its siblings nor makes
\* fetch_vacancies raise; the call returns and the returned list holds the
\* record of every card whose task did not fail.
C20_FailedTaskSparesSiblings ==
    /\ vpc = "collect" =>
          /\ DOMAIN task_pc = 1..Len(cards)
          /\ ENABLED NextVacancies
          /\ \A n \in DOMAIN task_pc :
                task_pc[n] \in {"created", "campaign", "page", "campaign_page",
                                "done"}
          /\ \A n \in DOMAIN task_pc :
                (FailedTasks # {} /\ task_pc[n] # "done") =>
                   ENABLED (TaskStart(n) \/ TaskCampaign(n) \/ TaskPage(n))
    /\ vpc = "raised" => task_pc = <<>>
    /\ (vpc = "returned" /\ task_pc # <<>>) =>
          /\ vacancy_out.kind = "return"
          /\ vacancy_out.value.kind = "list"
          /\ \A n \in 1..Len(cards) :
                /\ task_pc[n] = "done"
                /\ n \in SucceededTasks =>
                      /\ task_result[n].card = n
                      /\ \E m \in 1..Len(vacancy_out.value.l) :
                            vacancy_out.value.l[m] = task_result[n]

\* three cards: the first task to complete failed, the two others then
\* fetched their pages, and the call returned with their records
C20_Witness ==
    /\ vpc = "returned"
    /\ Len(cards) = 3
    /\ Len(completed) = 3
    /\ completed[1] \in FailedTasks
    /\ Cardinality(FailedTasks) = 1
    /\ Cardinality(SucceededTasks) = 2
    /\ \A n \in SucceededTasks : "page" \in DOMAIN task_result[n]

\* C21: the results are collected in completion order: the m-th entry of
\* the list is the result of the m-th task to complete, every task is
\* awaited exactly once, and the call returns only after every task has
\* completed.
C21_CollectedInCompletionOrder ==
    /\ vpc \in {"collect", "returned"} =>
          /\ awaited <= Len(completed)
          /\ Len(vacancies) = awaited
          /\ \A m \in 1..awaited : vacancies[m] = task_result[completed[m]]
          /\ \A m, k \in 1..Len(completed) :
                completed[m] = completed[k] => m = k
    /\ (vpc = "returned" /\ task_pc # <<>>) =>
          /\ awaited = Len(cards)
          /\ Len(completed) = Len(cards)
          /\ \A n \in 1..Len(cards) : task_pc[n] = "done"
          /\ vacancy_out.value = L(vacancies)

\* the third card's task completed first and the first card's last: the list
\* is in that order, not in card order
C21_Witness ==
    /\ vpc = "returned"
    /\ completed = <<3, 2, 1>>
    /\ SucceededTasks = {1, 2, 3}
    /\ vacancy_out.value.l[1].card = 3
    /\ vacancy_out.value.l[3].card = 1

\* C29: the returned list has no None entry; its length is the number of
\* cards whose task succeeded.
C29_NoNoneInVacancies ==
    (vpc = "returned" /\ task_pc # <<>>) =>
       /\ \A m \in 1..Len(vacancy_out.value.l) :
             vacancy_out.value.l[m] # PyNone
       /\ Len(vacancy_out.value.l) = Cardinality(SucceededTasks)

\* C26: one _make_request call without a custom requester runs the manual
\* redirect loop at most once and issues at most 1 + max_redirects
\* requests; a transport error inside the loop goes to the caller.
C26_FallbackRunsAtMostOnce ==
    (network_requester = PyNone /\ mpc # "start") =>
       /\ Len(loop_starts) <= 1
       /\ Len(sent) <= 1 + max_redirects
       /\ (mpc = "done" /\ outcome = [kind |-> "raise", error |-> "ClientError"])
             => made = outcome

\* C27: a payload whose resources all have type and id never makes the call
\* raise, whatever null, single and list relationships it holds at the first
\* and at the nested level.
C27_WellFormedNeverRaises ==
    (Done /\ WellFormedPayload) => pc = "returned"

-----------------------------------------------------------------------------
(* Claims about _merge_moves_data.                                         *)

\* the lower-cased names of the move-in tenants
MoveInNames ==
    {Lower(movein_tenants[n].tenant_name) : n \in 1..Len(movein_tenants)}

\* the move-out tenants whose name matches no move-in tenant, in order
UnmatchedMoveOuts ==
    SelectSeq(moveout_tenants,
              LAMBDA t : Lower(t.tenant_name) \notin MoveInNames)

\* the positions of the move-outs with this lower-cased name
MoveOutsNamed(name) ==
    {n \in 1..Len(moveout_tenants) :
        Lower(moveout_tenants[n].tenant_name) = name}

\* C30: the output holds one record per move-in tenant, in order, then one
\* record per move-out tenant whose lower-cased name matches no move-in, in
\* order; no move-out name is missing from the output; a move-in record
\* carries the move-out fields of the last move-out with its name, and
\* empty/False defaults when there is none.
C30_MergeIsComprehensive ==
    mgpc = "done" =>
       /\ merged_tenants.kind = "value"
       /\ LET out == merged_tenants.records
              ins == Len(movein_tenants)
          IN  /\ Len(out) = ins + Len(UnmatchedMoveOuts)
              /\ \A n \in 1..ins :
                    LET name == Lower(movein_tenants[n].tenant_name)
                        at == MoveOutsNamed(name)
                    IN  /\ out[n].tenant_name = movein_tenants[n].tenant_name
                        /\ out[n].tenant_id =
                              Get(movein_tenants[n], "tenant_id", "")
                        /\ at = {} =>
                              /\ out[n].move_out_date = ""
                              /\ out[n].moveout_type = ""
                              /\ out[n].moveout_id = ""
                              /\ out[n].is_overdue = FALSE
                        /\ at # {} =>
                              LET last == moveout_tenants[
                                     CHOOSE k \in at : \A m \in at : m <= k]
                              IN  /\ out[n].move_out_date =
                                        Get(last, "move_out_date", "")
                                  /\ out[n].moveout_type =
                                        Get(last, "moveout_type", "")
                                  /\ out[n].moveout_id =
                                        Get(last, "moveout_id", "")
                                  /\ out[n].is_overdue =
                                        Get(last, "is_overdue", FALSE)
              /\ \A k \in 1..Len(UnmatchedMoveOuts) :
                    /\ out[ins + k].tenant_name =
                          UnmatchedMoveOuts[k].tenant_name
                    /\ out[ins + k].moveout_id =
                          Get(UnmatchedMoveOuts[k], "moveout_id", "")
                    /\ out[ins + k].tenant_id = ""
              /\ \A m \in 1..Len(moveout_tenants) :
                    \E n \in 1..Len(out) :
                       Lower(out[n].tenant_name) =
                          Lower(moveout_tenants[m].tenant_name)

-----------------------------------------------------------------------------
(* Claims about the write operations.                                      *)

\* the targets of the requests sent so far, in order
SentTargets == [n \in 1..Len(op_log) |-> op_log[n].request.target]

\* s is a prefix of t
IsPrefix(s, t) == Len(s) <= Len(t) /\ \A n \in 1..Len(s) : s[n] = t[n]

\* the creation answer holds a resource with upload parameters
CreationSucceeded(reply) ==
    /\ reply \in CreateData
    /\ reply # PyNone
    /\ reply.l # <<>>
    /\ "attributes" \in DOMAIN reply.l[1]
    /\ "upload_params" \in DOMAIN reply.l[1].attributes
    /\ DOMAIN reply.l[1].attributes.upload_params # {}

\* C24: occupancy_add_attachment sends existence GET, creation POST, upload
\* POST to the returned URL, confirmation PUT with the returned id, in this
\* order, each only after the previous succeeded; the result is returned
\* only after the confirmation completed.
C24_AttachmentStepsInOrder ==
    op = "occupancy_add_attachment" =>
       /\ IsPrefix(SentTargets,
                   <<"occupancy", "attachments", "upload", "confirm">>)
       /\ Len(op_log) >= 2 => op_log[1].reply = "ok"
       /\ Len(op_log) >= 3 =>
             /\ CreationSucceeded(op_log[2].reply)
             /\ op_log[3].request.method = "POST"
             /\ op_log[3].request.id =
                   op_log[2].reply.l[1].attributes.upload_params.url
       /\ Len(op_log) >= 4 =>
             /\ op_log[3].reply # RequestRaised
             /\ op_log[3].reply.status < 400
             /\ op_log[4].request.method = "PUT"
             /\ op_log[4].request.id = op_log[2].reply.l[1].id
       /\ op_out.kind = "return" =>
             /\ Len(op_log) = 4
             /\ op_log[4].reply = "ok"
             /\ op_out.value = AttachmentResult(op_log[2].reply.l[1])

C24_Witness ==
    /\ op = "occupancy_add_attachment"
    /\ opc = "done"
    /\ op_out.kind = "return"
    /\ op_out.value.id = "7"
    /\ op_out.value.download_url = "d7"
    /\ SentTargets = <<"occupancy", "attachments", "upload", "confirm">>

\* the new-note fragment was fetched before request n and held a token
TokenExtractedBefore(n) ==
    \E m \in 1..(n - 1) :
       /\ op_log[m].request.target = "notes/new"
       /\ op_log[m].reply = "token"

\* C25: in both note operations the POST to /notes is sent only after the
\* new-note fragment was fetched and a token extracted from it; success is
\* returned only when the POST answer passes verification, otherwise the
\* operation raises "Failed to create note".
C25_NotePostNeedsToken ==
    op \in {"occupancy_add_note", "add_work_order_note"} =>
       /\ \A n \in 1..Len(op_log) :
             op_log[n].request.target = "notes" => TokenExtractedBefore(n)
       /\ op_out.kind = "return" =>
             /\ op_log[Len(op_log)].request.target = "notes"
             /\ VerifyNoteCreation(op_log[Len(op_log)].reply, op_args.note)
       /\ (/\ opc = "done"
           /\ op_log[Len(op_log)].request.target = "notes"
           /\ op_log[Len(op_log)].reply # "raise"
           /\ ~VerifyNoteCreation(op_log[Len(op_log)].reply, op_args.note))
          => op_out = OpRaised("Failed to create note")

-----------------------------------------------------------------------------
(* Claims about the credentials and the header mappings.                   *)

\* header names are matched without regard to case
LowerHeader(k) ==
    CASE k = "Host" -> "host"
      [] k = "User-Agent" -> "user-agent"
      [] k = "Cookie" -> "cookie"
      [] k = "Accept" -> "accept"
      [] k = "Accept-Version" -> "accept-version"
      [] OTHER -> k

Carries(h, name) == \E k \in DOMAIN h : LowerHeader(k) = name

CarriesValue(h, name, value) ==
    \E k \in DOMAIN h : LowerHeader(k) = name /\ h[k] = value

\* the header names the requests 1..n of an operation set themselves
OwnNames(name, n) == UNION {DOMAIN OpSteps(name)[m].set : m \in 1..n}

InFlight(t) == local_pc[t].at = "awaiting"

\* C22: after initialize no operation changes self.headers, self.token or
\* self.cookie_string, under any interleaving; each task's mapping is its
\* own and holds, besides the shared entries, only the headers its own
\* operation added.
C22_SharedStateIsReadOnly ==
    /\ [][init_tokens' = init_tokens =>
             /\ self_headers' = self_headers
             /\ token' = token
             /\ cookie_string' = cookie_string]_vars
    /\ [](self_headers # PyNone =>
             DOMAIN self_headers \subseteq {"Host", "User-Agent", "Cookie"})
    /\ [](\A t \in Tasks :
             InFlight(t) =>
                /\ local_headers[t].ref = "own"
                /\ DOMAIN local_headers[t].d \subseteq
                      {"Host", "User-Agent", "Cookie", "cookie"}
                         \cup OwnNames(local_pc[t].op, local_pc[t].step))

C22_Witness ==
    /\ InFlight(1)
    /\ local_pc[1].op = "occupancy_add_attachment"
    /\ local_pc[1].step = 3
    /\ InFlight(2)
    /\ local_pc[2].op = "add_work_order_note"
    /\ local_pc[2].step = 2
    /\ "Referer" \in DOMAIN Deref(local_headers[1])
    /\ "Referer" \notin DOMAIN Deref(local_headers[2])
    /\ "X-CSRF-Token" \in DOMAIN Deref(local_headers[2])
    /\ "X-CSRF-Token" \notin DOMAIN Deref(local_headers[1])
    /\ DOMAIN self_headers = {"Host", "User-Agent", "Cookie"}

\* C23: every request of an initialized client carries Host, User-Agent
\* and Cookie; a request to the /api surface also carries
\* Accept: application/vnd.api+json and Accept-Version.
C23_RequestsCarryHeaders ==
    \A t \in Tasks :
       InFlight(t) =>
          LET h == Deref(local_headers[t])
              step == OpSteps(local_pc[t].op)[local_pc[t].step]
          IN  /\ Carries(h, "host")
              /\ Carries(h, "user-agent")
              /\ Carries(h, "cookie")
              /\ step.target = "api" =>
                    /\ CarriesValue(h, "accept", VndApiJson)
                    /\ Carries(h, "accept-version")

\* the cookie string the tokens argument stands for
ExpectedCookie(tokens) ==
    CASE tokens = S("sid=1") -> S("sid=1")
      [] tokens = DictTokens(<<<<"b", "2">>, <<"a", "1">>>>) -> S("b=2; a=1")
      [] OTHER -> PyNone

\* C28: after any sequence of initialize calls the token is None exactly
\* when the shared headers have no Cookie; a Cookie entry equals the token
\* and cookie_string and is the serialization of the latest tokens
\* argument; after re-initializing without tokens a 4xx is reported as
\* missing credentials.
C28_CredentialsConsistent ==
    self_headers # PyNone =>
       /\ (token = PyNone) <=> ("Cookie" \notin DOMAIN self_headers)
       /\ "Cookie" \in DOMAIN self_headers =>
             /\ self_headers["Cookie"] = token
             /\ self_headers["Cookie"] = cookie_string
             /\ self_headers["Cookie"] = ExpectedCookie(init_tokens[1])
       /\ \A t \in Tasks :
             (/\ local_pc[t].at = "raised"
              /\ local_pc[t].tokens = <<PyNone>>
              /\ "status_code" \in DOMAIN local_pc[t].error)
             => local_pc[t].error = RaiseNoCredentials

====
